---- MODULE Spec2Model ----
\* Verification model of gognestcli: the event-driven capture orchestrator
\* (internal/cmd/events.go) and the WebRTC session (internal/webrtc).
EXTENDS Integers, Sequences, FiniteSets, TLC

\* ------------------------------------------------------------------ bounds
\* captureSeq is capped at MaxSeq in the handler's guard.
MaxSeq == 2
\* One step of the clock, in seconds.
Quantum == 30

\* Goroutines that call Session.Close on one session.
NumClosers == 2
\* Minutes of a session that are followed.
MaxMinute == 8
\* ICE connection-state changes that are followed.
MaxIceChanges == 3

\* Ticks of the keyframe-request ticker that are followed.
MaxPliTicks == 2

\* Pulls of the event loop that are followed.
MaxPulls == 3
\* Messages in one pull, and events in them, that are followed.
MaxBatch == 2

\* RTP packets of one track that are followed.
MaxPackets == 4

\* Local ICE candidates of one PeerConnection that are followed.
MaxCandidates == 3

\* Goroutines that call AccessToken on one TokenManager.
NumCallers == 2
\* Steps of the clock of a TokenManager that are followed.
MaxTokenTicks == 4

\* Milliseconds that pass in one step of a capture's clock.
CapQuantum == 2500

\* ------------------------------------------------------- program constants
\* AccessToken: tm.expiry.Add(-60*time.Second).
refreshMarginSecs == 60
\* EventsCmd.ClipSecs, default:"10".
defaultClipSecs == 10
\* RecordCmd.Duration, default:"15".
defaultRecordSecs == 15
\* RecordClip: context.WithTimeout(..., duration+15*time.Second).
clipCtxSlackSecs == 15
\* TakeSnapshot: context.WithTimeout(..., 30*time.Second).
snapshotCtxSecs == 30
\* TakeSnapshot: deadline := time.After(5 * time.Second).
snapshotFramesSecs == 5
\* The closer goroutine: time.Sleep(500 * time.Millisecond).
graceMillis == 500
\* Listen: time.Sleep(5 * time.Second) after a failed pull, in seconds.
pullPauseSecs == 5
\* samplebuilder.New(128, ...): how late a packet may be and still be placed.
maxLate == 128
\* extendInterval = 4 * time.Minute, in minutes.
extendInterval == 4
\* make(chan struct{}, 1): capacity of the snapshot slot.
SnapSemCap == 1
\* make(chan struct{}, 1): capacity of the clip slot.
ClipSemCap == 1
\* time.Sleep(1 * time.Minute) before dedup.Delete, in seconds.
DedupWindow == 60

\* ------------------------------------------------------------------ strings
\* Go strings are modelled as sequences of characters so that
\* strings.Contains and concatenation are computed, not assumed.
\* Event types as the listener delivers them: a trait name, a dot, the event.
MotionType == <<"c", ".", "M", "o", "t", "i", "o", "n">>
PersonType == <<"c", ".", "P", "e", "r", "s", "o", "n">>
SoundType == <<"c", ".", "S", "o", "u", "n", "d">>

\* strings.Contains(s, sub)
Contains(s, sub) ==
    \E i \in 1..(Len(s) - Len(sub) + 1) : SubSeq(s, i, i + Len(sub) - 1) = sub

\* Mutant of isActionableEvent: every event type is acted on.
isActionableAlways(eventType) == TRUE

\* isActionableEvent: the type contains "Motion" or "Person".
isActionableEvent(eventType) ==
    \/ Contains(eventType, <<"M","o","t","i","o","n">>)
    \/ Contains(eventType, <<"P","e","r","s","o","n">>)

\* ------------------------------------------------------------------- inputs
EventTypes == {MotionType, PersonType, SoundType}
DeviceNames == {"", "enterprises/p/devices/d1"}
EventIDs == {"", "evt1"}
\* Event timestamps, in seconds (the scenario's t = 10.000 s).
Timestamps == {10}

\* pubsub.Event as the handler reads it.
Events ==
    [DeviceName : DeviceNames, EventType : EventTypes,
     EventID : EventIDs, Timestamp : Timestamps]

\* Mutant of DedupKey: the device's name is part of the key.
DedupKeyWithDevice(event) ==
    <<event.Timestamp>> \o event.EventType \o <<event.DeviceName>>

\* dedupKey := event.Timestamp.String() + event.EventType
\* (the timestamp's text followed by the type's characters).
DedupKey(event) == <<event.Timestamp>> \o event.EventType

VARIABLES
    Capture,     \* EventsCmd.Capture
    Clip,        \* EventsCmd.Clip
    dedup,       \* sync.Map: the set of stored keys
    sleepers,    \* eviction goroutines: [key, left] (seconds still to sleep)
    captureSeq,  \* atomic.Int64
    snapSem,     \* number of tokens in the snapshot channel
    clipSem,     \* number of tokens in the clip channel
    snapJobs,    \* running snapshot goroutines: [seq, pc]
    clipJobs,    \* running clip goroutines: [seq, deviceName, pc]
    sessions,    \* open StreamSessions of clip jobs, by seq
    closers,     \* session-closing goroutines of clip jobs: [seq, st]
    last,        \* the last event displayed: its key, what was printed for it,
                 \* and whether a duplicate of it has been discarded since
    recent,      \* jobs dispatched less than DedupWindow ago: [seq, key, kind, age]
    seen,        \* per stored key: seconds since it was stored (at most DedupWindow)
    \* ---- one Session (internal/webrtc)
    answer,          \* what its owner did after NewSession: "pending", "none"
                     \* (SetAnswer never called), "ok", "err"
    mediaSessionID,  \* Session.mediaSessionID
    extendFn,        \* Session.extendFn is set
    stopFn,          \* Session.stopFn is set
    cancel,          \* Session.cancel is set
    ctxDone,         \* the context of the two loops is cancelled
    closed,          \* Session.closed
    mu,              \* Session.mu: 0, or the caller that holds it
    closePc,         \* per caller of Close: where it is
    closeRet,        \* per caller of Close: how its call returned
    pcOpen,          \* the PeerConnection has not been closed
    Connected,       \* the Connected channel: "open" or "closed"
    connectedOnce,   \* connectedOnce has run its function
    iceState,        \* the last ICE connection state reported
    extendLoop,      \* extendLoop: "off", "select", "extend", "returned"
    pliLoop,         \* pliLoop: "off", "select", "returned"
    extendTick,      \* ticks waiting in the extend ticker's channel (0 or 1)
    minute,          \* minutes since SetAnswer started the tickers
    calls,           \* what the session has called so far: stop, pcClose,
                     \* stopErrs, cancel, connectedClose, iceChanges, timesConnected,
                     \* ticksTaken, extendLog
    \* ---- one reader loop of a track (internal/recorder)
    writer,          \* whose loop it is: "file" (H264Writer), "stdout"
                     \* (StdoutH264Writer), "pipe" (PipeH264Writer), "audio"
                     \* (Recorder.recordAudio)
    readerPc,        \* "select", "ReadRTP", "Pop", "returned"
    readerCtxDone,   \* the context given to the loop is done
    track,           \* sequence numbers of the packets not yet read
    builder,         \* the samplebuilder: sequence numbers pushed, not popped
    popNext,         \* the sequence number the samplebuilder gives out next
    fileOpen,        \* H264Writer.file != nil
    sink,            \* the units written, in the order written
    reads,           \* packets read so far
    writeFailed,     \* a write to the sink has returned an error
    \* ---- one capture: RecordClip or TakeSnapshot run by a command
    command,         \* "events" (a clip job), "record", "snapshot"
    capPc,           \* where the capture is: "setup", "NewSession",
                     \* "GenerateWebRTCStream", "SetAnswer", "waitVideo",
                     \* "recording", "ffmpeg", "returned", "exited"
    capSession,      \* its StreamSession: "none", "open", "closed"
    capCtx,          \* its context: "none", "live", "done"
    ctxLeft,         \* milliseconds to the deadline of the context
    sleepLeft,       \* milliseconds left of the recording
    closerPc,        \* the closing goroutine: "none", "waitCtx", "grace", "done"
    graceLeft,       \* milliseconds left of its sleep
    sinceDone,       \* milliseconds since the context was done (up to graceMillis)
    capOutcome,      \* what the command reports: "none", "saved", "failed"
    iceFailed,       \* the ICE connection state changed to failed
    closedAtPc,      \* where the capture was when its session was closed
    writingMs,       \* milliseconds the reader has had to write the raw file
    rawFile,         \* the H264Writer of the capture: "none", "open", "closed"
    transcoderRuns,  \* times the capture has started ffmpeg
    tmpFile,         \* outputPath + ".tmp.h264": "absent" or "present"
    \* ---- one call of TakeSnapshot and the files it leaves (internal/recorder)
    tsImpl,          \* which TakeSnapshot: "webm" (lines 199-250), "h264"
                     \* (lines 406-473)
    outputPath,      \* its outputPath argument
    files,           \* the paths that exist
    tsPc,            \* "start", "startStream", "wait", "capture", "returned"
    tsRet,           \* what it returned: "none", "nil", "error"
    tsWarned,        \* it printed the "Saved WebM clip instead" warning
    ffmpeg,          \* how the transcoder ended: "none", "ok", "err"
    hadInput,        \* the intermediate file existed when the transcoder ran
    \* ---- the keyframe requests of the Session (pliLoop)
    tracks,          \* the receivers whose Track() is not nil
    pliLog,          \* per tick served: the receivers a picture-loss
                     \* indication was written for, and those whose write failed
    \* ---- the event loop (pubsub.Listener.Listen)
    listenPc,        \* "select", "pull", "sleep", "handle", "ack", "returned"
    listenCtx,       \* its context is cancelled
    listenRet,       \* what Listen returned: "none", "ctx.Err"
    pauseLeft,       \* seconds left of the pause after a failed pull
    batch,           \* messages: what the pull of this iteration returned
    msgIdx,          \* the message the range loop is at (past the end: done)
    toHandle,        \* events of that message not yet given to the handler
    ackIDs,          \* the iteration's ackIDs slice (messages by position)
    pulls,           \* pulls started so far
    pullErrs,        \* pulls that failed so far
    handled,         \* events given to the handler since the last pull
    acked,           \* the ids of the last acknowledge call
    ackRet,          \* how it returned: "none", "ok", "err"
    \* ---- one H264Writer, its reader loop and the callers of its Close
    hwMu,            \* H264Writer.mu: 0 (free), -1 (held by the loop), or the
                     \* caller of Close that holds it
    hwFile,          \* H264Writer.file: "open", or "closed" (closed and nil)
    hwFrames,        \* H264Writer.frames
    hwWritten,       \* samples written to the file
    hwLate,          \* writes that were made on the file after its Close
    hwToWrite,       \* samples the loop has still to pop
    hwPc,            \* the loop: "pop", "lock", "check", "write", "unlock"
    hwClosePc,       \* per caller of Close: "idle", "locked", "returned"
    hwCloseRet,      \* per caller of Close: "none", "nil", "err"
    hwFileCloses,    \* calls of file.Close()
    \* ---- one call of NewSession (internal/webrtc)
    nsAvail,         \* the local candidates there are to gather
    nsPc,            \* the call it is about to make, "gather", or "returned"
    nsPeer,          \* the PeerConnection: "none", "open", "closed"
    nsGathered,      \* the candidates gathered so far
    nsGatherDone,    \* the gathering-complete promise is closed
    nsRetSess,       \* returned: "none" (not yet), "nil", "session"
    nsRetOffer,      \* the offer returned: "none", "", "sdp"
    nsRetCands,      \* the candidates in the offer returned
    nsRetErr,        \* the error returned: "none", "nil", or the call that failed
    \* ---- the TokenManager of one command (internal/auth)
    tmMu,            \* tm.mu: 0 when free, else the caller that holds it
    tmAccessToken,   \* tm.accessToken
    tmExpiry,        \* tm.expiry, in seconds of the clock
    tmNow,           \* time.Now(), in seconds
    tmPc,            \* per caller: "idle", "lock", "check", "refresh", "done"
    tmRet,           \* per caller: what its last call of AccessToken returned
    tmInFlight       \* refresh requests sent and not yet answered

orchVars ==
    <<Capture, Clip, dedup, sleepers, captureSeq, snapSem, clipSem, snapJobs,
      clipJobs, sessions, closers, last, recent, seen>>

sessVars ==
    <<answer, mediaSessionID, extendFn, stopFn, cancel, ctxDone, closed, mu,
      closePc, closeRet, pcOpen, Connected, connectedOnce, iceState, extendLoop,
      pliLoop, extendTick, minute, calls>>

readerVars ==
    <<writer, readerPc, readerCtxDone, track, builder, popNext, fileOpen, sink,
      reads, writeFailed>>

capVars ==
    <<command, capPc, capSession, capCtx, ctxLeft, sleepLeft, closerPc,
      graceLeft, sinceDone, capOutcome, iceFailed, closedAtPc, writingMs,
      rawFile, transcoderRuns, tmpFile>>

tsVars ==
    <<tsImpl, outputPath, files, tsPc, tsRet, tsWarned, ffmpeg, hadInput>>

pliVars == <<tracks, pliLog>>

listenVars ==
    <<listenPc, listenCtx, listenRet, pauseLeft, batch, msgIdx, toHandle,
      ackIDs, pulls, pullErrs, handled, acked, ackRet>>

tmVars ==
    <<tmMu, tmAccessToken, tmExpiry, tmNow, tmPc, tmRet, tmInFlight>>

nsVars ==
    <<nsAvail, nsPc, nsPeer, nsGathered, nsGatherDone, nsRetSess, nsRetOffer,
      nsRetCands, nsRetErr>>

hwVars ==
    <<hwMu, hwFile, hwFrames, hwWritten, hwLate, hwToWrite, hwPc, hwClosePc,
      hwCloseRet, hwFileCloses>>

vars ==
    <<orchVars, sessVars, readerVars, capVars, tsVars, pliVars, listenVars, hwVars,
      nsVars, tmVars>>

\* What the steps of each part leave alone.
notOrch ==
    <<sessVars, readerVars, capVars, tsVars, pliVars, listenVars, hwVars, nsVars, tmVars>>
notSess ==
    <<orchVars, readerVars, capVars, tsVars, pliVars, listenVars, hwVars, nsVars, tmVars>>
notReader ==
    <<orchVars, sessVars, capVars, tsVars, pliVars, listenVars, hwVars, nsVars, tmVars>>
notCap ==
    <<orchVars, sessVars, readerVars, tsVars, pliVars, listenVars, hwVars, nsVars, tmVars>>
notTs ==
    <<orchVars, sessVars, readerVars, capVars, pliVars, listenVars, hwVars, nsVars, tmVars>>
notPli ==
    <<orchVars, sessVars, readerVars, capVars, tsVars, listenVars, hwVars, nsVars, tmVars>>
notListen ==
    <<orchVars, sessVars, readerVars, capVars, tsVars, pliVars, hwVars, nsVars, tmVars>>
notSessPli ==
    <<orchVars, readerVars, capVars, tsVars, listenVars, hwVars, nsVars, tmVars>>
notOrchListen ==
    <<sessVars, readerVars, capVars, tsVars, pliVars, hwVars, nsVars, tmVars>>
notHw ==
    <<orchVars, sessVars, readerVars, capVars, tsVars, pliVars, listenVars,
      nsVars, tmVars>>
notNs ==
    <<orchVars, sessVars, readerVars, capVars, tsVars, pliVars, listenVars,
      hwVars, tmVars>>
notTm ==
    <<orchVars, sessVars, readerVars, capVars, tsVars, pliVars, listenVars,
      hwVars, nsVars>>

Min(a, b) == IF a < b THEN a ELSE b
Max(a, b) == IF a > b THEN a ELSE b

OrchInit ==
    /\ Capture \in BOOLEAN
    /\ Clip \in BOOLEAN
    /\ dedup = {}
    /\ sleepers = {}
    /\ captureSeq = 0
    /\ snapSem = 0
    /\ clipSem = 0
    /\ snapJobs = {}
    /\ clipJobs = {}
    /\ sessions = {}
    /\ closers = {}
    /\ last = [key |-> <<>>, outcome |-> "none", snap |-> "none",
               clip |-> "none", repeated |-> FALSE]
    /\ recent = {}
    /\ seen = [k \in {} |-> 0]

\* ------------------------------------------------------ the event handler
\* Mutant of Loaded: a Store in place of LoadOrStore never reports a duplicate.
LoadedNever(key) == FALSE

\* dedup.LoadOrStore(dedupKey, true): loaded reports a key already stored.
Loaded(key) == key \in dedup

\* Mutant of SnapAttempt: the correlation id is not looked at.
SnapAttemptAnyID(event) == Capture

\* if e.Capture && event.EventID != ""
SnapAttempt(event) == Capture /\ event.EventID # ""

\* if e.Clip
ClipAttempt(event) == Clip

\* Mutant of SnapSelect: a snapshot channel made with capacity 2.
SnapSelectCap2(snapHeld, clipHeld) ==
    IF snapHeld < SnapSemCap + 1 THEN "started" ELSE "skipped"

\* Mutant of SnapSelect: a default branch that prints nothing.
SnapSelectSilent(snapHeld, clipHeld) ==
    IF snapHeld < SnapSemCap THEN "started" ELSE "none"

\* select { case snapSem <- struct{}{}: go ...; default: Println("Skipping ...") }
\* snapHeld and clipHeld are the tokens in the two channels at the select.
SnapSelect(snapHeld, clipHeld) ==
    IF snapHeld < SnapSemCap THEN "started" ELSE "skipped"

\* Mutant of ClipSelect: one channel shared by the two kinds of job.
ClipSelectShared(snapHeld, clipHeld) ==
    IF snapHeld + clipHeld < ClipSemCap THEN "started" ELSE "skipped"

\* Mutant of ClipSelect: a plain send clipSem <- struct{}{} with no default
\* branch, which waits for the running job to give the slot back.
ClipSelectBlocking(snapHeld, clipHeld) ==
    IF clipHeld < ClipSemCap THEN "started" ELSE "blocked"

\* select { case clipSem <- struct{}{}: go ...; default: Println("Skipping ...") }
ClipSelect(snapHeld, clipHeld) ==
    IF clipHeld < ClipSemCap THEN "started" ELSE "skipped"

\* The goroutine of lines 98-101 right after it is spawned.
NewSleeper(key) == [key |-> key, left |-> DedupWindow]

\* Mutant of HandleDuplicate: every event stores its key and starts a new
\* eviction goroutine, so a duplicate restarts the window.
HandleDuplicateRearm(event, key) ==
    /\ UNCHANGED <<dedup, captureSeq, snapSem, clipSem, snapJobs, clipJobs,
                   recent, seen>>
    /\ sleepers' = {s \in sleepers : s.key # key} \cup {NewSleeper(key)}
    /\ last' = IF key = last.key THEN [last EXCEPT !.repeated = TRUE] ELSE last

\* A duplicate: the handler returns at once, printing nothing; the table is
\* left as it is.
HandleDuplicate(event, key) ==
    /\ UNCHANGED <<dedup, sleepers, captureSeq, snapSem, clipSem, snapJobs,
                   clipJobs, recent, seen>>
    /\ last' = IF key = last.key THEN [last EXCEPT !.repeated = TRUE] ELSE last

\* The key is recorded and its eviction scheduled.
StoreKey(key) ==
    /\ dedup' = dedup \cup {key}
    /\ sleepers' = sleepers \cup {NewSleeper(key)}
    /\ seen' = [k \in DOMAIN seen \cup {key} |->
                   IF k = key THEN 0 ELSE seen[k]]

\* Displayed, but not actionable: no sequence number, no admission attempt.
HandleDisplayOnly(event, key) ==
    /\ StoreKey(key)
    /\ UNCHANGED <<captureSeq, snapSem, clipSem, snapJobs, clipJobs, recent>>
    /\ last' = [key |-> key, outcome |-> "displayed", snap |-> "none",
                clip |-> "none", repeated |-> FALSE]

\* Mutant of Add: the counter is read, not incremented.
AddNothing(counter, delta) == counter

\* atomic.Int64.Add: the new value (an int64 counting events handled by one
\* process stays far below 2^63).
Add(counter, delta) == counter + delta

\* The digits of n, most significant first.
RECURSIVE Digits(_)
Digits(n) == IF n < 10 THEN <<n>> ELSE Append(Digits(n \div 10), n % 10)

\* The "%03d" of the filenames: the digits, padded with zeros to three.
Pad3(n) ==
    LET d == Digits(n)
    IN  IF Len(d) >= 3 THEN d ELSE [i \in 1..(3 - Len(d)) |-> 0] \o d

\* An actionable event: seq := captureSeq.Add(1), then the two admissions.
HandleActionable(event, key) ==
    LET seq == Add(captureSeq, 1)
        snap == IF SnapAttempt(event) THEN SnapSelect(snapSem, clipSem) ELSE "none"
        snapAfter == IF snap = "started" THEN snapSem + 1 ELSE snapSem
        clip == IF ClipAttempt(event) THEN ClipSelect(snapAfter, clipSem) ELSE "none"
    IN  /\ captureSeq < MaxSeq
        \* the handler gets past a select only when one of its branches is
        \* taken; the go statements return at once
        /\ snap # "blocked"
        /\ clip # "blocked"
        /\ StoreKey(key)
        /\ captureSeq' = seq
        /\ snapSem' = snapAfter
        /\ snapJobs' = IF snap = "started"
                          THEN snapJobs \cup {[seq |-> seq,
                                               pc |-> "GenerateEventImage"]}
                          ELSE snapJobs
        /\ clipSem' = IF clip = "started" THEN clipSem + 1 ELSE clipSem
        /\ clipJobs' = IF clip = "started"
                          THEN clipJobs \cup {[seq |-> seq,
                                               deviceName |-> event.DeviceName,
                                               pc |-> "captureClip"]}
                          ELSE clipJobs
        /\ recent' = recent
                     \cup (IF snap = "started"
                              THEN {[seq |-> seq, key |-> key, kind |-> "snapshot", age |-> 0]}
                              ELSE {})
                     \cup (IF clip = "started"
                              THEN {[seq |-> seq, key |-> key, kind |-> "clip", age |-> 0]}
                              ELSE {})
        /\ last' = [key |-> key, outcome |-> "actionable", snap |-> snap,
                    clip |-> clip, repeated |-> FALSE]

\* The callback given to listener.Listen, run for one event.
Handler(event) ==
    LET key == DedupKey(event)
    IN  /\ IF Loaded(key)
              THEN HandleDuplicate(event, key)
              ELSE IF ~isActionableEvent(event.EventType)
                      THEN HandleDisplayOnly(event, key)
                      ELSE HandleActionable(event, key)
        /\ UNCHANGED <<Capture, Clip, sessions, closers>>

\* --------------------------------------------------------- dedup eviction
\* Mutant of Awake: the goroutine deletes the key without sleeping.
AwakeAtOnce(s) == TRUE

\* time.Sleep has ended once nothing is left to sleep.
Awake(s) == s.left = 0

\* dedup.Delete(dedupKey) by the goroutine of lines 98-101.
Evict(s) ==
    /\ s \in sleepers
    /\ Awake(s)
    /\ dedup' = dedup \ {s.key}
    /\ sleepers' = sleepers \ {s}
    /\ seen' = [k \in DOMAIN seen \ {s.key} |-> seen[k]]
    /\ UNCHANGED <<Capture, Clip, captureSeq, snapSem, clipSem, snapJobs,
                   clipJobs, sessions, closers, last, recent>>

\* Quantum seconds pass: sleepers sleep on, the history ages.
Tick ==
    /\ sleepers' = {[s EXCEPT !.left = Max(@ - Quantum, 0)] : s \in sleepers}
    /\ recent' = {[r EXCEPT !.age = @ + Quantum] :
                     r \in {x \in recent : x.age + Quantum < DedupWindow}}
    /\ seen' = [k \in DOMAIN seen |-> Min(seen[k] + Quantum, DedupWindow)]
    /\ UNCHANGED <<Capture, Clip, dedup, captureSeq, snapSem, clipSem, snapJobs,
                   clipJobs, sessions, closers, last>>

\* ---------------------------------------------------------- snapshot job
\* defer func() { <-snapSem }(): runs when captureEventImage returns.
SnapReturn(j) ==
    /\ snapSem > 0
    /\ snapSem' = snapSem - 1
    /\ snapJobs' = snapJobs \ {j}

\* Mutant of SnapFailed: the slot is released at the end of the body only,
\* so a return after a failed call leaves it held.
SnapFailedNoRelease(j) ==
    /\ snapJobs' = snapJobs \ {j}
    /\ UNCHANGED snapSem

\* A return of captureEventImage after a failed call (lines 157-160, 162-165).
SnapFailed(j) == SnapReturn(j)

snapFrame ==
    <<Capture, Clip, dedup, sleepers, captureSeq, clipSem, clipJobs, sessions,
      closers, last, recent, seen>>

\* client.GenerateEventImage succeeds.
GenerateEventImageOk(j) ==
    /\ j \in snapJobs
    /\ j.pc = "GenerateEventImage"
    /\ snapJobs' = (snapJobs \ {j}) \cup {[j EXCEPT !.pc = "DownloadEventImage"]}
    /\ UNCHANGED snapSem
    /\ UNCHANGED snapFrame

\* client.GenerateEventImage fails: warning, return.
GenerateEventImageErr(j) ==
    /\ j \in snapJobs
    /\ j.pc = "GenerateEventImage"
    /\ SnapFailed(j)
    /\ UNCHANGED snapFrame

\* client.DownloadEventImage succeeds: "Saved", return.
DownloadEventImageOk(j) ==
    /\ j \in snapJobs
    /\ j.pc = "DownloadEventImage"
    /\ SnapReturn(j)
    /\ UNCHANGED snapFrame

\* client.DownloadEventImage fails: warning, return.
DownloadEventImageErr(j) ==
    /\ j \in snapJobs
    /\ j.pc = "DownloadEventImage"
    /\ SnapFailed(j)
    /\ UNCHANGED snapFrame

\* -------------------------------------------------------------- clip job
\* defer func() { <-clipSem }(): runs when captureClip returns.
ClipReturn(j) ==
    /\ clipSem > 0
    /\ clipSem' = clipSem - 1
    /\ clipJobs' = clipJobs \ {j}

\* The job moves on to its next call.
ClipGoto(j, pc) ==
    /\ clipJobs' = (clipJobs \ {j}) \cup {[j EXCEPT !.pc = pc]}
    /\ UNCHANGED clipSem

\* defer cancel() of RecordClip: the goroutine of lines 210-214 passes
\* <-ctx.Done() and starts its 500 ms sleep.
CancelCtx(seq) ==
    {IF c.seq = seq THEN [c EXCEPT !.st = "grace"] ELSE c : c \in closers}

clipFrame ==
    <<Capture, Clip, dedup, sleepers, captureSeq, snapSem, snapJobs, last,
      recent, seen>>

\* captureClip, lines 171-174: an empty device name returns at once.
EmptyDeviceName(j) ==
    /\ j \in clipJobs
    /\ j.pc = "captureClip"
    /\ j.deviceName = ""
    /\ ClipReturn(j)
    /\ UNCHANGED <<sessions, closers>>
    /\ UNCHANGED clipFrame

\* RecordClip, lines 507-517: ffmpeg is missing or the temporary file cannot
\* be created; RecordClip returns the error.
RecordClipSetupErr(j) ==
    /\ j \in clipJobs
    /\ j.pc = "captureClip"
    /\ j.deviceName # ""
    /\ ClipReturn(j)
    /\ UNCHANGED <<sessions, closers>>
    /\ UNCHANGED clipFrame

\* startStream: nestwebrtc.NewSession fails; RecordClip returns "starting
\* stream".
NewSessionErr(j) ==
    /\ j \in clipJobs
    /\ j.pc = "captureClip"
    /\ j.deviceName # ""
    /\ ClipReturn(j)
    /\ UNCHANGED <<sessions, closers>>
    /\ UNCHANGED clipFrame

\* RecordClip finds ffmpeg and creates its temporary file; startStream's
\* nestwebrtc.NewSession returns a session.
NewSessionOk(j) ==
    /\ j \in clipJobs
    /\ j.pc = "captureClip"
    /\ j.deviceName # ""
    /\ ClipGoto(j, "GenerateWebRTCStream")
    /\ sessions' = sessions \cup {j.seq}
    /\ UNCHANGED closers
    /\ UNCHANGED clipFrame

\* client.GenerateWebRTCStream succeeds.
GenerateWebRTCStreamOk(j) ==
    /\ j \in clipJobs
    /\ j.pc = "GenerateWebRTCStream"
    /\ ClipGoto(j, "SetAnswer")
    /\ UNCHANGED <<sessions, closers>>
    /\ UNCHANGED clipFrame

\* client.GenerateWebRTCStream fails: session.Close(), return the error.
GenerateWebRTCStreamErr(j) ==
    /\ j \in clipJobs
    /\ j.pc = "GenerateWebRTCStream"
    /\ sessions' = sessions \ {j.seq}
    /\ ClipReturn(j)
    /\ UNCHANGED closers
    /\ UNCHANGED clipFrame

\* session.SetAnswer succeeds: the closing goroutine is started.
SetAnswerOk(j) ==
    /\ j \in clipJobs
    /\ j.pc = "SetAnswer"
    /\ ClipGoto(j, "waitVideo")
    /\ closers' = closers \cup {[seq |-> j.seq, st |-> "waitCtx"]}
    /\ UNCHANGED sessions
    /\ UNCHANGED clipFrame

\* session.SetAnswer fails: session.Close(), return the error.
SetAnswerErr(j) ==
    /\ j \in clipJobs
    /\ j.pc = "SetAnswer"
    /\ sessions' = sessions \ {j.seq}
    /\ ClipReturn(j)
    /\ UNCHANGED closers
    /\ UNCHANGED clipFrame

\* RecordClip, lines 539-541: the first video track arrives.
GotVideo(j) ==
    /\ j \in clipJobs
    /\ j.pc = "waitVideo"
    /\ ClipGoto(j, "recording")
    /\ UNCHANGED <<sessions, closers>>
    /\ UNCHANGED clipFrame

\* RecordClip, lines 542-545: the context's deadline passes first.
VideoTimeout(j) ==
    /\ j \in clipJobs
    /\ j.pc = "waitVideo"
    /\ closers' = CancelCtx(j.seq)
    /\ ClipReturn(j)
    /\ UNCHANGED sessions
    /\ UNCHANGED clipFrame

\* The deadline of RecordClip's context (line 519) passes while RecordClip
\* sleeps or transcodes: the goroutine of lines 210-214 passes <-ctx.Done()
\* and starts its 500 ms sleep; RecordClip itself goes on.
ClipCtxTimeout(j) ==
    /\ j \in clipJobs
    /\ j.pc \in {"recording", "ffmpeg"}
    /\ [seq |-> j.seq, st |-> "waitCtx"] \in closers
    /\ closers' = CancelCtx(j.seq)
    /\ UNCHANGED <<clipSem, clipJobs, sessions>>
    /\ UNCHANGED clipFrame

\* time.Sleep(duration); h264w.Close()
RecordingDone(j) ==
    /\ j \in clipJobs
    /\ j.pc = "recording"
    /\ ClipGoto(j, "ffmpeg")
    /\ UNCHANGED <<sessions, closers>>
    /\ UNCHANGED clipFrame

\* h264ToMP4 / h264ToWebM returns, with or without an error; RecordClip
\* returns, its deferred cancel() runs, captureClip prints and returns.
FfmpegDone(j) ==
    /\ j \in clipJobs
    /\ j.pc = "ffmpeg"
    /\ closers' = CancelCtx(j.seq)
    /\ ClipReturn(j)
    /\ UNCHANGED sessions
    /\ UNCHANGED clipFrame

\* The goroutine of lines 210-214 after its sleep: session.Close().
CloserClose(c) ==
    /\ c \in closers
    /\ c.st = "grace"
    /\ closers' = closers \ {c}
    /\ sessions' = sessions \ {c.seq}
    /\ UNCHANGED <<clipSem, clipJobs>>
    /\ UNCHANGED clipFrame

SnapStep ==
    \E j \in snapJobs :
        \/ GenerateEventImageOk(j)
        \/ GenerateEventImageErr(j)
        \/ DownloadEventImageOk(j)
        \/ DownloadEventImageErr(j)

ClipStep ==
    \E j \in clipJobs :
        \/ EmptyDeviceName(j)
        \/ RecordClipSetupErr(j)
        \/ NewSessionErr(j)
        \/ NewSessionOk(j)
        \/ GenerateWebRTCStreamOk(j)
        \/ GenerateWebRTCStreamErr(j)
        \/ SetAnswerOk(j)
        \/ SetAnswerErr(j)
        \/ GotVideo(j)
        \/ VideoTimeout(j)
        \/ ClipCtxTimeout(j)
        \/ RecordingDone(j)
        \/ FfmpegDone(j)

\* ================================================================ Session
Callers == 1..NumClosers

\* The session handles SetAnswer may be given: the API's id, or none.
SessionIDs == {"", "msid1"}

ICEStates == {"checking", "connected", "disconnected"}

\* The session as NewSession returns it (lines 101-104, 139).
SessInit ==
    /\ answer = "pending"
    /\ mediaSessionID = ""
    /\ extendFn = FALSE
    /\ stopFn = FALSE
    /\ cancel = FALSE
    /\ ctxDone = FALSE
    /\ closed = FALSE
    /\ mu = 0
    /\ closePc = [c \in Callers |-> "idle"]
    /\ closeRet = [c \in Callers |-> "none"]
    /\ pcOpen = TRUE
    /\ Connected = "open"
    /\ connectedOnce = FALSE
    /\ iceState = "new"
    /\ extendLoop = "off"
    /\ pliLoop = "off"
    /\ extendTick = 0
    /\ minute = 0
    /\ calls = [stop |-> 0, stopErrs |-> 0, pcClose |-> 0, cancel |-> 0, connectedClose |-> 0,
                iceChanges |-> 0, timesConnected |-> 0, ticksTaken |-> 0,
                extendLog |-> <<>>]

\* Mutant of LoopAfterSetAnswer: the loops are started before the remote
\* description is applied.
LoopStartedFirst(applied) == "select"

\* SetAnswer, lines 152-160: the go statements come after the return on a
\* failed SetRemoteDescription.
LoopAfterSetAnswer(applied) == IF applied THEN "select" ELSE "off"

\* SetAnswer, lines 144-162: the fields are set, the remote description is
\* applied, the context is made and the two loops are started.
SetAnswerApplied(msid) ==
    /\ answer = "pending"
    /\ answer' = "ok"
    /\ mediaSessionID' = msid
    /\ extendFn' = TRUE
    /\ stopFn' = TRUE
    /\ cancel' = TRUE
    /\ pliLoop' = LoopAfterSetAnswer(TRUE)
    /\ extendLoop' = LoopAfterSetAnswer(TRUE)
    /\ UNCHANGED <<ctxDone, closed, mu, closePc, closeRet, pcOpen, Connected,
                   connectedOnce, iceState, extendTick, minute, calls>>

\* SetAnswer, lines 144-154: SetRemoteDescription fails after the fields
\* were set; no context, no loop.
SetAnswerRejected(msid) ==
    /\ answer = "pending"
    /\ answer' = "err"
    /\ mediaSessionID' = msid
    /\ extendFn' = TRUE
    /\ stopFn' = TRUE
    /\ pliLoop' = LoopAfterSetAnswer(FALSE)
    /\ extendLoop' = LoopAfterSetAnswer(FALSE)
    /\ UNCHANGED <<cancel, ctxDone, closed, mu, closePc, closeRet, pcOpen,
                   Connected, connectedOnce, iceState, extendTick, minute,
                   calls>>

\* The owner closes the session without calling SetAnswer (stream generation
\* failed: events.go 195-199).
NoAnswer ==
    /\ answer = "pending"
    /\ answer' = "none"
    /\ UNCHANGED <<mediaSessionID, extendFn, stopFn, cancel, ctxDone, closed, mu,
                   closePc, closeRet, pcOpen, Connected, connectedOnce, iceState,
                   extendLoop, pliLoop, extendTick, minute, calls>>

\* Mutant of AlreadyClosed: Close without its closed flag.
AlreadyClosedUnchecked == FALSE

\* Close, line 170: if s.closed
AlreadyClosed == closed

\* Close, lines 167-173: lock; return nil when closed already (the deferred
\* Unlock runs), else set closed.
CloseEnter(c) ==
    /\ answer # "pending"
    /\ closePc[c] = "idle"
    /\ mu = 0
    /\ IF AlreadyClosed
          THEN /\ closePc' = [closePc EXCEPT ![c] = "returned"]
               /\ closeRet' = [closeRet EXCEPT ![c] = "nil"]
               /\ UNCHANGED <<mu, closed>>
          ELSE /\ mu' = c
               /\ closed' = TRUE
               /\ closePc' = [closePc EXCEPT ![c] = "cancel"]
               /\ UNCHANGED closeRet
    /\ UNCHANGED <<answer, mediaSessionID, extendFn, stopFn, cancel, ctxDone,
                   pcOpen, Connected, connectedOnce, iceState, extendLoop,
                   pliLoop, extendTick, minute, calls>>

\* Mutant of CancelSet: Close never calls the cancel function.
CancelSetNever == FALSE

\* Close, line 175: s.cancel != nil
CancelSet == cancel

\* Close, lines 175-177: if s.cancel != nil { s.cancel() }
CloseCancel(c) ==
    /\ closePc[c] = "cancel"
    /\ closePc' = [closePc EXCEPT ![c] = "stop"]
    /\ IF CancelSet
          THEN /\ ctxDone' = TRUE
               /\ calls' = [calls EXCEPT !.cancel = @ + 1]
          ELSE UNCHANGED <<ctxDone, calls>>
    /\ UNCHANGED <<answer, mediaSessionID, extendFn, stopFn, cancel, closed, mu,
                   closeRet, pcOpen, Connected, connectedOnce, iceState,
                   extendLoop, pliLoop, extendTick, minute>>

\* Mutant of AfterStop: Close returns the error of the stop call.
AfterStopReturnError(result) == IF result = "err" THEN "returned" ELSE "pcClose"

\* Close, line 180: _ = s.stopFn(s.mediaSessionID); whatever the call
\* returns, Close goes on to close the peer connection.
AfterStop(result) == "pcClose"

\* Mutant of StopWanted: the stop call is made whatever the handle.
StopWantedAnyHandle == stopFn

\* Close, line 179: s.stopFn != nil && s.mediaSessionID != ""
StopWanted == stopFn /\ mediaSessionID # ""

\* Close, lines 179-181: the stop call, its error dropped.
CloseStop(c, result) ==
    /\ closePc[c] = "stop"
    /\ IF StopWanted
          THEN /\ calls' = [calls EXCEPT !.stop = @ + 1,
                                         !.stopErrs = IF result = "err"
                                                        THEN @ + 1 ELSE @]
               /\ closePc' = [closePc EXCEPT ![c] = AfterStop(result)]
               /\ IF AfterStop(result) = "returned"
                     THEN /\ closeRet' = [closeRet EXCEPT ![c] = "stop:err"]
                          /\ mu' = 0
                     ELSE UNCHANGED <<closeRet, mu>>
          ELSE /\ result = "ok"
               /\ closePc' = [closePc EXCEPT ![c] = "pcClose"]
               /\ UNCHANGED <<calls, closeRet, mu>>
    /\ UNCHANGED <<answer, mediaSessionID, extendFn, stopFn, cancel, ctxDone,
                   closed, pcOpen, Connected, connectedOnce,
                   iceState, extendLoop, pliLoop, extendTick, minute>>

\* Close, line 183 and the deferred Unlock: return s.pc.Close()
ClosePeer(c) ==
    /\ closePc[c] = "pcClose"
    /\ closePc' = [closePc EXCEPT ![c] = "returned"]
    /\ \E r \in {"nil", "err"} : closeRet' = [closeRet EXCEPT ![c] = "pc:" \o r]
    /\ pcOpen' = FALSE
    /\ calls' = [calls EXCEPT !.pcClose = @ + 1]
    /\ mu' = 0
    /\ UNCHANGED <<answer, mediaSessionID, extendFn, stopFn, cancel, ctxDone,
                   closed, Connected, connectedOnce, iceState, extendLoop,
                   pliLoop, extendTick, minute>>

\* Mutant of OnceDone: the callback closes the channel without sync.Once.
OnceNever == FALSE

\* connectedOnce.Do runs its function only the first time.
OnceDone == connectedOnce

\* The OnICEConnectionStateChange callback, lines 107-115.
ICEConnectionStateChange(state) ==
    /\ calls.iceChanges < MaxIceChanges
    /\ state # iceState
    /\ iceState' = state
    /\ IF state = "connected"
          THEN IF OnceDone
                  THEN /\ calls' = [calls EXCEPT !.iceChanges = @ + 1,
                                                 !.timesConnected = @ + 1]
                       /\ UNCHANGED <<Connected, connectedOnce>>
                  ELSE /\ connectedOnce' = TRUE
                       /\ Connected' = "closed"
                       /\ calls' = [calls EXCEPT !.iceChanges = @ + 1,
                                                 !.timesConnected = @ + 1,
                                                 !.connectedClose = @ + 1]
          ELSE /\ calls' = [calls EXCEPT !.iceChanges = @ + 1]
               /\ UNCHANGED <<Connected, connectedOnce>>
    /\ UNCHANGED <<answer, mediaSessionID, extendFn, stopFn, cancel, ctxDone,
                   closed, mu, closePc, closeRet, pcOpen, extendLoop, pliLoop,
                   extendTick, minute>>

\* A minute passes; every extendInterval minutes the extend ticker puts a
\* tick in its channel of capacity 1 (a tick that finds it full is dropped).
MinutePasses ==
    /\ extendLoop \in {"select", "extend"}
    /\ minute < MaxMinute
    /\ minute' = minute + 1
    /\ extendTick' = IF (minute + 1) % extendInterval = 0 THEN 1 ELSE extendTick
    /\ UNCHANGED <<answer, mediaSessionID, extendFn, stopFn, cancel, ctxDone,
                   closed, mu, closePc, closeRet, pcOpen, Connected,
                   connectedOnce, iceState, extendLoop, pliLoop, calls>>

\* extendLoop, lines 213-214: case <-ctx.Done(): return
ExtendLoopCancelled ==
    /\ extendLoop = "select"
    /\ ctxDone
    /\ extendLoop' = "returned"
    /\ UNCHANGED <<answer, mediaSessionID, extendFn, stopFn, cancel, ctxDone,
                   closed, mu, closePc, closeRet, pcOpen, Connected,
                   connectedOnce, iceState, pliLoop, extendTick, minute, calls>>

\* extendLoop, lines 215-216: case <-ticker.C, then the guard of the call.
ExtendLoopTick ==
    /\ extendLoop = "select"
    /\ extendTick > 0
    /\ extendTick' = 0
    /\ extendLoop' = IF extendFn /\ mediaSessionID # "" THEN "extend" ELSE "select"
    /\ calls' = [calls EXCEPT !.ticksTaken = @ + 1]
    /\ UNCHANGED <<answer, mediaSessionID, extendFn, stopFn, cancel, ctxDone,
                   closed, mu, closePc, closeRet, pcOpen, Connected,
                   connectedOnce, iceState, pliLoop, minute>>

\* Mutant of AfterExtend: the loop returns when the extend call fails.
AfterExtendStopOnError(result) ==
    IF result = "err" THEN "returned" ELSE "select"

\* extendLoop, lines 217-219: an error is printed as a warning; either way
\* the loop goes round to its select.
AfterExtend(result) == "select"

\* extendLoop, line 217: s.extendFn(s.mediaSessionID) returns.
ExtendReturns(result) ==
    /\ extendLoop = "extend"
    /\ extendLoop' = AfterExtend(result)
    /\ calls' = [calls EXCEPT !.extendLog = Append(@, [minute |-> minute,
                                                       result |-> result])]
    /\ UNCHANGED <<answer, mediaSessionID, extendFn, stopFn, cancel, ctxDone,
                   closed, mu, closePc, closeRet, pcOpen, Connected,
                   connectedOnce, iceState, pliLoop, extendTick, minute>>

\* pliLoop, lines 192-193: case <-ctx.Done(): return
PliLoopCancelled ==
    /\ pliLoop = "select"
    /\ ctxDone
    /\ pliLoop' = "returned"
    /\ UNCHANGED <<answer, mediaSessionID, extendFn, stopFn, cancel, ctxDone,
                   closed, mu, closePc, closeRet, pcOpen, Connected,
                   connectedOnce, iceState, extendLoop, extendTick, minute, calls>>

\* NewSession, lines 80-92: the receivers of the audio and of the video
\* transceiver, in the order GetReceivers gives them.
Receivers == <<"audio", "video">>

PliInit ==
    /\ tracks = {}
    /\ pliLog = <<>>

\* The remote side starts sending on a receiver: its Track() is set.
TrackStarts(r) ==
    /\ answer = "ok"
    /\ pcOpen
    /\ r \in DOMAIN Receivers
    /\ r \notin tracks
    /\ tracks' = tracks \cup {r}
    /\ UNCHANGED pliLog

\* Mutant of WantsPli: a request for every track, whatever its kind.
WantsPliAnyKind(r) == r \in tracks

\* pliLoop, lines 196-197: track != nil && track.Kind() == video
WantsPli(r) == r \in tracks /\ Receivers[r] = "video"

\* Mutant of AfterPli: the loop returns when a write fails.
AfterPliStopOnError(failed) == IF failed = {} THEN "select" ELSE "returned"

\* pliLoop, lines 198-200: _ = s.pc.WriteRTCP(...); the loop goes round.
AfterPli(failed) == "select"

\* pliLoop, lines 194-202: case <-ticker.C: one WriteRTCP for each receiver
\* with a video track; a closed peer connection fails every write.
PliTick(failed) ==
    /\ pliLoop = "select"
    /\ Len(pliLog) < MaxPliTicks
    /\ LET sent == {r \in DOMAIN Receivers : WantsPli(r)}
       IN  /\ failed \subseteq sent
           /\ ~pcOpen => failed = sent
           /\ pliLog' = Append(pliLog, [sent |-> sent, failed |-> failed])
    /\ pliLoop' = AfterPli(failed)
    /\ UNCHANGED tracks
    /\ UNCHANGED <<answer, mediaSessionID, extendFn, stopFn, cancel, ctxDone,
                   closed, mu, closePc, closeRet, pcOpen, Connected,
                   connectedOnce, iceState, extendLoop, extendTick, minute, calls>>

\* =========================================================== reader loops
Writers == {"file", "stdout", "pipe", "audio"}

\* Packets carry one access unit each: packet n carries the unit with
\* timestamp n. The network hands them over in any order in which no packet
\* is overtaken by maxLate packets or more.
Packets == 1..MaxPackets

\* A loop just started by the track handler.
ReaderInit ==
    /\ writer \in Writers
    /\ readerPc = "select"
    /\ readerCtxDone = FALSE
    /\ track = Packets
    /\ builder = {}
    /\ popNext = 1
    /\ fileOpen = TRUE
    /\ sink = <<>>
    /\ reads = 0
    /\ writeFailed = FALSE

\* The context of the capture is cancelled or times out.
ReaderCtxCancel ==
    /\ ~readerCtxDone
    /\ readerCtxDone' = TRUE
    /\ UNCHANGED <<writer, readerPc, track, builder, popNext, fileOpen, sink,
                   reads, writeFailed>>

\* H264Writer.Close, called by the capture while the loop may still run.
WriterClose ==
    /\ writer = "file"
    /\ fileOpen
    /\ fileOpen' = FALSE
    /\ UNCHANGED <<writer, readerPc, readerCtxDone, track, builder, popNext,
                   sink, reads, writeFailed>>

\* Mutant of AfterSelect: the loop never looks at its context.
AfterSelectIgnoreCtx(done) == "ReadRTP"

\* case <-ctx.Done(): return; default: on to track.ReadRTP()
AfterSelect(done) == IF done THEN "returned" ELSE "ReadRTP"

\* select { case <-ctx.Done(): return; default: }
ReaderSelect ==
    /\ readerPc = "select"
    /\ readerPc' = AfterSelect(readerCtxDone)
    /\ UNCHANGED <<writer, readerCtxDone, track, builder, popNext, fileOpen,
                   sink, reads, writeFailed>>

\* track.ReadRTP() returns an error: the loop returns.
ReadRTPErr ==
    /\ readerPc = "ReadRTP"
    /\ readerPc' = "returned"
    /\ UNCHANGED <<writer, readerCtxDone, track, builder, popNext, fileOpen,
                   sink, reads, writeFailed>>

\* The packets the network may hand over next.
Deliverable == {seq \in track : \A other \in track : seq < other + maxLate}

\* builder.Push(pkt): the packet is placed by its sequence number; one that
\* comes after its place was given out is dropped.
Push(seq) == IF seq >= popNext THEN builder \cup {seq} ELSE builder

\* track.ReadRTP() returns a packet. The video loops push it to the
\* samplebuilder; recordAudio writes it at once (writeAudioSample drops the
\* error of the write).
ReadRTPOk(seq, result) ==
    /\ readerPc = "ReadRTP"
    /\ seq \in Deliverable
    /\ track' = track \ {seq}
    /\ reads' = reads + 1
    /\ IF writer = "audio"
          THEN /\ readerPc' = "select"
               /\ sink' = IF result = "ok" THEN Append(sink, seq) ELSE sink
               /\ writeFailed' = (writeFailed \/ result = "err")
               /\ UNCHANGED builder
          ELSE /\ result = "ok"
               /\ readerPc' = "Pop"
               /\ builder' = Push(seq)
               /\ UNCHANGED <<sink, writeFailed>>
    /\ UNCHANGED <<writer, readerCtxDone, popNext, fileOpen>>

\* builder.Pop() has a sample to give: the packets of the next unit are in,
\* and so is the packet after them that shows where the unit ends.
HasSample == popNext \in builder /\ (popNext + 1) \in builder

\* sample == nil: break, back to the top of the loop.
PopNil ==
    /\ readerPc = "Pop"
    /\ ~HasSample
    /\ readerPc' = "select"
    /\ UNCHANGED <<writer, readerCtxDone, track, builder, popNext, fileOpen,
                   sink, reads, writeFailed>>

\* What a loop does with the result of its write. H264Writer calls
\* w.file.Write(sample.Data) and drops what it returns; the stdout and pipe
\* loops return on an error.
AfterWrite(w, result) ==
    IF w \in {"stdout", "pipe"} /\ result = "err" THEN "returned" ELSE "Pop"

\* builder.Pop() gives a sample and the loop writes it to its sink.
PopWrite(result) ==
    /\ readerPc = "Pop"
    /\ HasSample
    /\ builder' = builder \ {popNext}
    /\ popNext' = popNext + 1
    /\ IF writer = "file" /\ ~fileOpen
          THEN /\ result = "ok"
               /\ readerPc' = "Pop"
               /\ UNCHANGED <<sink, writeFailed>>
          ELSE /\ readerPc' = AfterWrite(writer, result)
               /\ sink' = IF result = "ok" THEN Append(sink, popNext) ELSE sink
               /\ writeFailed' = (writeFailed \/ result = "err")
    /\ UNCHANGED <<writer, readerCtxDone, track, fileOpen, reads>>

\* The track handler given to NewSession is called with the video track and
\* runs the reader loop on it.
OnTrack ==
    /\ answer = "ok"
    /\ pcOpen
    /\ readerPc = "off"
    /\ readerPc' = "select"
    /\ UNCHANGED <<writer, readerCtxDone, track, builder, popNext, fileOpen,
                   sink, reads, writeFailed>>

\* The peer connection is closed: track.ReadRTP() returns an error to a loop
\* blocked in it.
ReadRTPClosed == ~pcOpen /\ ReadRTPErr

\* ================================================== one call of NewSession
\* NewSession (internal/webrtc, lines 39-140) makes eight calls in order and
\* returns at the first that fails; then it waits for candidate gathering
\* and returns the session with the offer.

\* The calls of NewSession that can fail, in the order of the code (lines 50,
\* 62, 75, 81, 88, 96, 125, 133).
Calls ==
    <<"RegisterH264", "RegisterOpus", "NewPeerConnection", "AddAudio",
      "AddVideo", "CreateDataChannel", "CreateOffer", "SetLocalDescription">>

CallNames ==
    {Calls[i] : i \in 1..Len(Calls)}

\* What NewSession does after a call that succeeded: the next call, or the
\* receive of line 137 after the last.
CallAfter(call) ==
    LET i == CHOOSE j \in 1..Len(Calls) : Calls[j] = call
    IN  IF i = Len(Calls) THEN "gather" ELSE Calls[i + 1]

\* The local candidates the ICE agent can find.
Candidates == 1..MaxCandidates

\* The failure returns that have pc.Close() in front of them (lines 84, 91,
\* 97, 127, 134).  The returns of lines 58, 70 and 77 have no PeerConnection
\* to close: api.NewPeerConnection has not returned one.
ClosesOnFailTransceiversOnly(call) ==
    call \in {"AddAudio", "AddVideo"}
ClosesOnFail(call) ==
    call \in {"AddAudio", "AddVideo", "CreateDataChannel", "CreateOffer",
              "SetLocalDescription"}

\* <-gatherComplete (line 137): the receive returns once the promise of
\* line 132 is closed.
GatherNotAwaited(done) ==
    TRUE
GatherAwaited(done) ==
    done

\* The call is about to start: nothing is constructed, nothing is returned.
NsInit ==
    /\ nsAvail \in SUBSET Candidates
    /\ nsPc = Calls[1]
    /\ nsPeer = "none"
    /\ nsGathered = {}
    /\ nsGatherDone = FALSE
    /\ nsRetSess = "none"
    /\ nsRetOffer = "none"
    /\ nsRetCands = {}
    /\ nsRetErr = "none"

\* One of the eight calls fails: the PeerConnection is closed where the code
\* closes it, and (nil, "", err) is returned.
NsCallFails ==
    /\ nsPc \in CallNames
    /\ nsPeer' = IF ClosesOnFail(nsPc) THEN "closed" ELSE nsPeer
    /\ nsPc' = "returned"
    /\ nsRetSess' = "nil"
    /\ nsRetOffer' = ""
    /\ nsRetErr' = nsPc
    /\ UNCHANGED <<nsAvail, nsGathered, nsGatherDone, nsRetCands>>

\* One of the eight calls succeeds.  NewPeerConnection (line 75) constructs
\* the PeerConnection; SetLocalDescription (line 133) starts the gathering,
\* and NewSession goes on to the receive of line 137.
NsCallOk ==
    /\ nsPc \in CallNames
    /\ nsPeer' = IF nsPc = "NewPeerConnection" THEN "open" ELSE nsPeer
    /\ nsPc' = CallAfter(nsPc)
    /\ UNCHANGED <<nsAvail, nsGathered, nsGatherDone, nsRetSess, nsRetOffer,
                   nsRetCands, nsRetErr>>

\* The ICE agent finds one more local candidate; the local description
\* carries it from then on.
NsCandidate(c) ==
    /\ nsPc = "gather"
    /\ ~nsGatherDone
    /\ c \in nsAvail \ nsGathered
    /\ nsGathered' = nsGathered \cup {c}
    /\ UNCHANGED <<nsAvail, nsPc, nsPeer, nsGatherDone, nsRetSess, nsRetOffer,
                   nsRetCands, nsRetErr>>

\* The ICE agent has found every candidate: the gathering state becomes
\* complete and the promise of line 132 is closed.
NsGatherComplete ==
    /\ nsPc = "gather"
    /\ ~nsGatherDone
    /\ nsGathered = nsAvail
    /\ nsGatherDone' = TRUE
    /\ UNCHANGED <<nsAvail, nsPc, nsPeer, nsGathered, nsRetSess, nsRetOffer,
                   nsRetCands, nsRetErr>>

\* Lines 137-139: the receive returns, and the session is returned with the
\* SDP of the local description as it is now.
NsReturn ==
    /\ nsPc = "gather"
    /\ GatherAwaited(nsGatherDone)
    /\ nsPc' = "returned"
    /\ nsRetSess' = "session"
    /\ nsRetOffer' = "sdp"
    /\ nsRetCands' = nsGathered
    /\ nsRetErr' = "nil"
    /\ UNCHANGED <<nsAvail, nsPeer, nsGathered, nsGatherDone>>

\* ============================================= H264Writer and its mutex
\* The writer as NewH264Writer returns it (lines 279-285), its loop with
\* samples still to pop, and nobody in Close.
HwInit ==
    /\ hwMu = 0
    /\ hwFile = "open"
    /\ hwFrames = 0
    /\ hwWritten = 0
    /\ hwLate = 0
    /\ hwToWrite = MaxPackets
    /\ hwPc = "pop"
    /\ hwClosePc = [c \in Callers |-> "idle"]
    /\ hwCloseRet = [c \in Callers |-> "none"]
    /\ hwFileCloses = 0

\* Mutant of LockFree: the writer without its mutex.
LockIgnored(holder) == TRUE

\* w.mu.Lock() returns when nobody holds the mutex.
LockFree(holder) == holder = 0

\* HandleVideoTrack, lines 304-308: builder.Pop() gives a sample.
HwPop ==
    /\ hwPc = "pop"
    /\ hwToWrite > 0
    /\ hwToWrite' = hwToWrite - 1
    /\ hwPc' = "lock"
    /\ UNCHANGED <<hwMu, hwFile, hwFrames, hwWritten, hwLate, hwClosePc,
                   hwCloseRet, hwFileCloses>>

\* HandleVideoTrack, line 309: w.mu.Lock()
HwLock ==
    /\ hwPc = "lock"
    /\ LockFree(hwMu)
    /\ hwMu' = -1
    /\ hwPc' = "check"
    /\ UNCHANGED <<hwFile, hwFrames, hwWritten, hwLate, hwToWrite, hwClosePc,
                   hwCloseRet, hwFileCloses>>

\* HandleVideoTrack, line 310: if w.file != nil
HwCheck ==
    /\ hwPc = "check"
    /\ hwPc' = IF hwFile = "open" THEN "write" ELSE "unlock"
    /\ UNCHANGED <<hwMu, hwFile, hwFrames, hwWritten, hwLate, hwToWrite,
                   hwClosePc, hwCloseRet, hwFileCloses>>

\* HandleVideoTrack, lines 311-312: w.file.Write(sample.Data), what it
\* returns dropped, and w.frames++.
HwWrite(result) ==
    /\ hwPc = "write"
    /\ IF hwFile = "open"
          THEN /\ hwWritten' = IF result = "ok" THEN hwWritten + 1 ELSE hwWritten
               /\ UNCHANGED hwLate
          ELSE /\ result = "err"
               /\ hwLate' = hwLate + 1
               /\ UNCHANGED hwWritten
    /\ hwFrames' = hwFrames + 1
    /\ hwPc' = "unlock"
    /\ UNCHANGED <<hwMu, hwFile, hwToWrite, hwClosePc, hwCloseRet,
                   hwFileCloses>>

\* HandleVideoTrack, line 314: w.mu.Unlock(), and round to builder.Pop().
HwUnlock ==
    /\ hwPc = "unlock"
    /\ hwMu' = 0
    /\ hwPc' = "pop"
    /\ UNCHANGED <<hwFile, hwFrames, hwWritten, hwLate, hwToWrite, hwClosePc,
                   hwCloseRet, hwFileCloses>>

\* Close, line 328: w.mu.Lock()
HwCloseLock(c) ==
    /\ hwClosePc[c] = "idle"
    /\ LockFree(hwMu)
    /\ hwMu' = c
    /\ hwClosePc' = [hwClosePc EXCEPT ![c] = "locked"]
    /\ UNCHANGED <<hwFile, hwFrames, hwWritten, hwLate, hwToWrite, hwPc,
                   hwCloseRet, hwFileCloses>>

\* Close, lines 329-335: with a file, close it, forget it and return what
\* closing returned; without, return nil. The deferred Unlock runs.
HwCloseBody(c, result) ==
    /\ hwClosePc[c] = "locked"
    /\ IF hwFile = "open"
          THEN /\ hwFile' = "closed"
               /\ hwFileCloses' = hwFileCloses + 1
               /\ hwCloseRet' = [hwCloseRet EXCEPT ![c] = result]
          ELSE /\ result = "nil"
               /\ hwCloseRet' = [hwCloseRet EXCEPT ![c] = "nil"]
               /\ UNCHANGED <<hwFile, hwFileCloses>>
    /\ hwMu' = 0
    /\ hwClosePc' = [hwClosePc EXCEPT ![c] = "returned"]
    /\ UNCHANGED <<hwFrames, hwWritten, hwLate, hwToWrite, hwPc>>

\* ======================================================= the TokenManager
\* TokenManager.AccessToken (internal/auth, lines 183-199) holds tm.mu from
\* its first line to its return.

TmCallers == 1..NumCallers

\* The access tokens a token response can carry.
AccessTokens == {"", "tokA", "tokB"}

\* The lifetimes a token response can carry (TokenResponse.ExpiresIn), in
\* seconds.
ExpiresIns == {refreshMarginSecs, 2 * refreshMarginSecs}

\* What a call of AccessToken returns.
TmReturn(token, err, refreshed) ==
    [token |-> token, err |-> err, refreshed |-> refreshed]

\* NewTokenManager (lines 164-169): no token, the zero time, a free mutex.
TmInit ==
    /\ tmMu = 0
    /\ tmAccessToken = ""
    /\ tmExpiry = 0
    /\ tmNow = 0
    /\ tmPc = [c \in TmCallers |-> "idle"]
    /\ tmRet = [c \in TmCallers |-> TmReturn("", "none", FALSE)]
    /\ tmInFlight = 0

\* Line 187: tm.accessToken != "" && time.Now().Before(tm.expiry.Add(-60s)).
CacheFreshNoMargin(token, expiry, now) ==
    /\ token # ""
    /\ now < expiry
CacheFresh(token, expiry, now) ==
    /\ token # ""
    /\ now < expiry - refreshMarginSecs

\* A goroutine calls tokenFn (events.go 55-57), that is, tm.AccessToken.
TmCall(c) ==
    /\ tmPc[c] \in {"idle", "done"}
    /\ tmPc' = [tmPc EXCEPT ![c] = "lock"]
    /\ UNCHANGED <<tmMu, tmAccessToken, tmExpiry, tmNow, tmRet, tmInFlight>>

\* Line 184: tm.mu.Lock() returns once the mutex is free.
TmLock(c) ==
    /\ tmPc[c] = "lock"
    /\ LockFree(tmMu)
    /\ tmMu' = c
    /\ tmPc' = [tmPc EXCEPT ![c] = "check"]
    /\ UNCHANGED <<tmAccessToken, tmExpiry, tmNow, tmRet, tmInFlight>>

\* Lines 187-191: a fresh cached token is returned, and the deferred Unlock
\* runs; otherwise the refresh request is sent.
TmCheck(c) ==
    /\ tmPc[c] = "check"
    /\ IF CacheFresh(tmAccessToken, tmExpiry, tmNow)
       THEN /\ tmRet' = [tmRet EXCEPT ![c] = TmReturn(tmAccessToken, "nil", FALSE)]
            /\ tmPc' = [tmPc EXCEPT ![c] = "done"]
            /\ tmMu' = 0
            /\ UNCHANGED tmInFlight
       ELSE /\ tmPc' = [tmPc EXCEPT ![c] = "refresh"]
            /\ tmInFlight' = tmInFlight + 1
            /\ UNCHANGED <<tmRet, tmMu>>
    /\ UNCHANGED <<tmAccessToken, tmExpiry, tmNow>>

\* Lines 191-194: tm.refresh has failed; the error is returned and the
\* deferred Unlock runs.
TmRefreshErr(c) ==
    /\ tmPc[c] = "refresh"
    /\ tmInFlight' = tmInFlight - 1
    /\ tmRet' = [tmRet EXCEPT ![c] = TmReturn("", "refreshErr", TRUE)]
    /\ tmPc' = [tmPc EXCEPT ![c] = "done"]
    /\ tmMu' = 0
    /\ UNCHANGED <<tmAccessToken, tmExpiry, tmNow>>

\* Lines 191 and 196-198: tm.refresh has returned a token response; the
\* token and its expiry, counted from now, are stored, the token is returned
\* and the deferred Unlock runs.
TmRefreshOk(c, token, expiresIn) ==
    /\ tmPc[c] = "refresh"
    /\ tmInFlight' = tmInFlight - 1
    /\ tmAccessToken' = token
    /\ tmExpiry' = tmNow + expiresIn
    /\ tmRet' = [tmRet EXCEPT ![c] = TmReturn(token, "nil", TRUE)]
    /\ tmPc' = [tmPc EXCEPT ![c] = "done"]
    /\ tmMu' = 0
    /\ UNCHANGED tmNow

\* Time passes.
TmTick ==
    /\ tmNow < MaxTokenTicks * Quantum
    /\ tmNow' = tmNow + Quantum
    /\ UNCHANGED <<tmMu, tmAccessToken, tmExpiry, tmPc, tmRet, tmInFlight>>

\* ============================================================ one capture
Commands == {"events", "record", "snapshot"}

\* How long the command records, in milliseconds (TakeSnapshot collects
\* frames for at most snapshotFramesSecs).
RecordMillis(cmd) ==
    1000 * (CASE cmd = "events" -> defaultClipSecs
              [] cmd = "record" -> defaultRecordSecs
              [] cmd = "snapshot" -> snapshotFramesSecs)

\* The timeout of the capture's context, in milliseconds.
CtxMillis(cmd) ==
    IF cmd = "snapshot"
       THEN 1000 * snapshotCtxSecs
       ELSE RecordMillis(cmd) + 1000 * clipCtxSlackSecs

\* The command has called RecordClip or TakeSnapshot.
CapInit ==
    /\ command \in Commands
    /\ capPc = "setup"
    /\ capSession = "none"
    /\ capCtx = "none"
    /\ ctxLeft = 0
    /\ sleepLeft = 0
    /\ closerPc = "none"
    /\ graceLeft = 0
    /\ sinceDone = 0
    /\ capOutcome = "none"
    /\ iceFailed = FALSE
    /\ closedAtPc = "none"
    /\ writingMs = 0
    /\ rawFile = "none"
    /\ transcoderRuns = 0
    /\ tmpFile = "absent"

\* RecordClip / TakeSnapshot returns: the deferred cancel() runs and the
\* command prints what happened.
CapReturn(outcome) ==
    /\ capPc' = "returned"
    /\ capOutcome' = outcome
    /\ capCtx' = IF capCtx = "none" THEN "none" ELSE "done"

\* Mutant of CapCloseNow: the session is left as it is.
CapCloseNever == UNCHANGED <<capSession, closedAtPc>>

\* session.Close() called by the capture itself.
CapCloseNow ==
    /\ capSession' = "closed"
    /\ closedAtPc' = capPc

\* Mutant of DeferredRemove: no defer os.Remove(tmpH264).
DeferredRemoveMissing(f) == f

\* defer os.Remove(tmpH264) (RecordClip line 512, TakeSnapshot line 412):
\* when the function returns the file is removed, if it is there.
DeferredRemove(f) == "absent"

\* exec.LookPath("ffmpeg") fails and the function returns before it names
\* its temporary file ("noFfmpeg"), or NewH264Writer fails to create the file
\* ("createErr") and the deferred os.Remove finds nothing to remove.
CapSetupErr(why) ==
    /\ capPc = "setup"
    /\ CapReturn("failed")
    /\ tmpFile' = IF why = "noFfmpeg" THEN tmpFile ELSE DeferredRemove(tmpFile)
    /\ UNCHANGED <<rawFile, transcoderRuns>>
    /\ UNCHANGED <<command, capSession, ctxLeft, sleepLeft, closerPc, graceLeft,
                   sinceDone, iceFailed, closedAtPc, writingMs>>

\* ctx, cancel := context.WithTimeout(...); startStream is called.
CapSetupOk ==
    /\ capPc = "setup"
    /\ capPc' = "NewSession"
    /\ capCtx' = "live"
    /\ ctxLeft' = CtxMillis(command)
    /\ rawFile' = "open"
    /\ tmpFile' = "present"
    /\ UNCHANGED transcoderRuns
    /\ UNCHANGED <<command, capSession, sleepLeft, closerPc, graceLeft,
                   sinceDone, capOutcome, iceFailed, closedAtPc, writingMs>>

CapNewSessionErr ==
    /\ capPc = "NewSession"
    /\ CapReturn("failed")
    /\ rawFile' = "closed"
    /\ tmpFile' = DeferredRemove(tmpFile)
    /\ UNCHANGED transcoderRuns
    /\ UNCHANGED <<command, capSession, ctxLeft, sleepLeft, closerPc, graceLeft,
                   sinceDone, iceFailed, closedAtPc, writingMs>>

CapNewSessionOk ==
    /\ capPc = "NewSession"
    /\ capPc' = "GenerateWebRTCStream"
    /\ capSession' = "open"
    /\ UNCHANGED <<rawFile, transcoderRuns, tmpFile>>
    /\ UNCHANGED <<command, capCtx, ctxLeft, sleepLeft, closerPc, graceLeft,
                   sinceDone, capOutcome, iceFailed, closedAtPc, writingMs>>

\* GenerateWebRTCStream fails: session.Close(); return err.
CapGenerateErr ==
    /\ capPc = "GenerateWebRTCStream"
    /\ CapCloseNow
    /\ CapReturn("failed")
    /\ rawFile' = "closed"
    /\ tmpFile' = DeferredRemove(tmpFile)
    /\ UNCHANGED transcoderRuns
    /\ UNCHANGED <<command, ctxLeft, sleepLeft, closerPc, graceLeft, sinceDone,
                   iceFailed, writingMs>>

CapGenerateOk ==
    /\ capPc = "GenerateWebRTCStream"
    /\ capPc' = "SetAnswer"
    /\ UNCHANGED <<rawFile, transcoderRuns, tmpFile>>
    /\ UNCHANGED <<command, capSession, capCtx, ctxLeft, sleepLeft, closerPc,
                   graceLeft, sinceDone, capOutcome, iceFailed, closedAtPc,
                   writingMs>>

\* SetAnswer fails: session.Close(); return err.
CapSetAnswerErr ==
    /\ capPc = "SetAnswer"
    /\ CapCloseNow
    /\ CapReturn("failed")
    /\ rawFile' = "closed"
    /\ tmpFile' = DeferredRemove(tmpFile)
    /\ UNCHANGED transcoderRuns
    /\ UNCHANGED <<command, ctxLeft, sleepLeft, closerPc, graceLeft, sinceDone,
                   iceFailed, writingMs>>

\* SetAnswer succeeds: the closing goroutine is started and startStream
\* returns nil; the capture waits for the video track.
CapSetAnswerOk ==
    /\ capPc = "SetAnswer"
    /\ capPc' = "waitVideo"
    /\ closerPc' = "waitCtx"
    /\ UNCHANGED <<rawFile, transcoderRuns, tmpFile>>
    /\ UNCHANGED <<command, capSession, capCtx, ctxLeft, sleepLeft, graceLeft,
                   sinceDone, capOutcome, iceFailed, closedAtPc, writingMs>>

\* case <-gotVideo: the first video packet has come.
CapGotVideo ==
    /\ capPc = "waitVideo"
    /\ capSession = "open"
    /\ ~iceFailed
    /\ capPc' = "recording"
    /\ sleepLeft' = RecordMillis(command)
    /\ UNCHANGED <<rawFile, transcoderRuns, tmpFile>>
    /\ UNCHANGED <<command, capSession, capCtx, ctxLeft, closerPc, graceLeft,
                   sinceDone, capOutcome, iceFailed, closedAtPc, writingMs>>

\* Mutant of VideoWaitOver: the wait for video has no ctx.Done() branch.
VideoWaitForever(ctx) == FALSE

\* RecordClip, line 542: case <-ctx.Done() can be taken.
VideoWaitOver(ctx) == ctx = "done"

\* case <-ctx.Done(): h264w.Close(); timed out waiting for video track.
CapVideoTimeout ==
    /\ capPc = "waitVideo"
    /\ VideoWaitOver(capCtx)
    /\ CapReturn("failed")
    /\ rawFile' = "closed"
    /\ tmpFile' = DeferredRemove(tmpFile)
    /\ UNCHANGED transcoderRuns
    /\ UNCHANGED <<command, capSession, ctxLeft, sleepLeft, closerPc, graceLeft,
                   sinceDone, iceFailed, closedAtPc, writingMs>>

\* time.Sleep(duration) is over (TakeSnapshot: the deadline has passed or 30
\* frames are in); h264w.Close(); the transcoder is started.
CapRecordingDone ==
    /\ capPc = "recording"
    /\ sleepLeft = 0 \/ (command = "snapshot" /\ writingMs > 0)
    /\ capPc' = "ffmpeg"
    /\ rawFile' = "closed"
    /\ transcoderRuns' = transcoderRuns + 1
    /\ UNCHANGED tmpFile
    /\ UNCHANGED <<command, capSession, capCtx, ctxLeft, sleepLeft, closerPc,
                   graceLeft, sinceDone, capOutcome, iceFailed, closedAtPc,
                   writingMs>>

\* ffmpeg returns.
CapFfmpegDone(result) ==
    /\ capPc = "ffmpeg"
    /\ CapReturn(IF result = "ok" THEN "saved" ELSE "failed")
    /\ tmpFile' = DeferredRemove(tmpFile)
    /\ UNCHANGED <<rawFile, transcoderRuns>>
    /\ UNCHANGED <<command, capSession, ctxLeft, sleepLeft, closerPc, graceLeft,
                   sinceDone, iceFailed, closedAtPc, writingMs>>

\* The deadline of the context passes.
CapCtxTimeout ==
    /\ capCtx = "live"
    /\ ctxLeft = 0
    /\ capCtx' = "done"
    /\ UNCHANGED <<rawFile, transcoderRuns, tmpFile>>
    /\ UNCHANGED <<command, capPc, capSession, ctxLeft, sleepLeft, closerPc,
                   graceLeft, sinceDone, capOutcome, iceFailed, closedAtPc,
                   writingMs>>

\* The process is running: Run has not returned to Execute in a command
\* that runs one capture.
ProcessRuns == capPc # "exited"

\* The closing goroutine: <-ctx.Done()
CloserWakes ==
    /\ ProcessRuns
    /\ closerPc = "waitCtx"
    /\ capCtx = "done"
    /\ closerPc' = "grace"
    /\ graceLeft' = graceMillis
    /\ UNCHANGED <<rawFile, transcoderRuns, tmpFile>>
    /\ UNCHANGED <<command, capPc, capSession, capCtx, ctxLeft, sleepLeft,
                   sinceDone, capOutcome, iceFailed, closedAtPc, writingMs>>

\* The closing goroutine: time.Sleep(500 * time.Millisecond) is over;
\* session.Close().
CloserCloses ==
    /\ ProcessRuns
    /\ closerPc = "grace"
    /\ graceLeft = 0
    /\ closerPc' = "done"
    /\ IF capSession = "open"
          THEN CapCloseNow
          ELSE UNCHANGED <<capSession, closedAtPc>>
    /\ UNCHANGED <<rawFile, transcoderRuns, tmpFile>>
    /\ UNCHANGED <<command, capPc, capCtx, ctxLeft, sleepLeft, graceLeft,
                   sinceDone, capOutcome, iceFailed, writingMs>>

\* The OnICEConnectionStateChange callback is called with the failed state
\* while the capture streams: it prints a message.
CapICEFailed ==
    /\ ProcessRuns
    /\ capSession = "open"
    /\ capPc \in {"waitVideo", "recording"}
    /\ ~iceFailed
    /\ iceFailed' = TRUE
    /\ UNCHANGED <<rawFile, transcoderRuns, tmpFile>>
    /\ UNCHANGED <<command, capPc, capSession, capCtx, ctxLeft, sleepLeft,
                   closerPc, graceLeft, sinceDone, capOutcome, closedAtPc,
                   writingMs>>

\* The reader loop is writing: video is coming, the context it checks is
\* live and the peer connection is open.
ReaderWrites ==
    capPc = "recording" /\ capCtx = "live" /\ capSession = "open" /\ ~iceFailed

\* CapQuantum milliseconds pass.
CapTick ==
    /\ ProcessRuns
    /\ \/ capCtx = "live" /\ ctxLeft > 0
       \/ sleepLeft > 0
       \/ graceLeft > 0
    /\ ctxLeft' = IF capCtx = "live" THEN Max(ctxLeft - CapQuantum, 0) ELSE ctxLeft
    /\ sleepLeft' = Max(sleepLeft - CapQuantum, 0)
    /\ graceLeft' = Max(graceLeft - CapQuantum, 0)
    /\ sinceDone' = IF capCtx = "done"
                       THEN Min(sinceDone + CapQuantum, graceMillis)
                       ELSE sinceDone
    /\ writingMs' = IF ReaderWrites
                       THEN Min(writingMs + Min(CapQuantum, sleepLeft),
                                RecordMillis(command))
                       ELSE writingMs
    /\ UNCHANGED <<rawFile, transcoderRuns, tmpFile>>
    /\ UNCHANGED <<command, capPc, capSession, capCtx, closerPc, capOutcome,
                   iceFailed, closedAtPc>>

\* Run returns to Execute, which returns the exit code: the record and
\* snapshot commands end, and their goroutines with them. The events command
\* goes on listening.
ProcessExit ==
    /\ command # "events"
    /\ capPc = "returned"
    /\ capPc' = "exited"
    /\ UNCHANGED <<rawFile, transcoderRuns, tmpFile>>
    /\ UNCHANGED <<command, capSession, capCtx, ctxLeft, sleepLeft, closerPc,
                   graceLeft, sinceDone, capOutcome, iceFailed, closedAtPc,
                   writingMs>>

\* ================================================ TakeSnapshot's files
\* The characters of the paths that are followed; strings.ToLower of one.
ToLowerChar(c) ==
    CASE c = "J" -> "j"
      [] c = "P" -> "p"
      [] c = "G" -> "g"
      [] OTHER -> c

\* strings.ToLower(s)
ToLower(s) == [i \in 1..Len(s) |-> ToLowerChar(s[i])]

\* filepath.Ext(path): the suffix beginning at the last dot, or "".
Ext(path) ==
    LET dots == {i \in 1..Len(path) : path[i] = "."}
    IN  IF dots = {}
           THEN <<>>
           ELSE SubSeq(path, CHOOSE i \in dots : \A k \in dots : k <= i,
                       Len(path))

\* strings.TrimSuffix(s, suffix)
TrimSuffix(s, suffix) ==
    IF /\ Len(suffix) <= Len(s)
       /\ SubSeq(s, Len(s) - Len(suffix) + 1, Len(s)) = suffix
       THEN SubSeq(s, 1, Len(s) - Len(suffix))
       ELSE s

dotJPG == <<".", "j", "p", "g">>
dotJPEG == <<".", "j", "p", "e", "g">>
dotWebM == <<".", "w", "e", "b", "m">>

\* The -o arguments that are followed.
OutputPaths ==
    {<<"s">> \o dotJPG, <<"s", ".", "J", "P", "G">>, <<"s">> \o dotJPEG,
     <<"s">> \o dotWebM, <<"s">>}

TsImpls == {"webm", "h264"}

\* wantJPEG := ext == ".jpg" || ext == ".jpeg" (line 204)
wantJPEG == ToLower(Ext(outputPath)) \in {dotJPG, dotJPEG}

\* webmPath (lines 203-207)
webmPath ==
    IF wantJPEG THEN outputPath \o <<".", "t", "m", "p">> \o dotWebM
                ELSE outputPath

\* finalWebM (line 243)
finalWebM == TrimSuffix(outputPath, Ext(outputPath)) \o dotWebM

\* tmpH264 := outputPath + ".tmp.h264" (line 411)
tmpH264 == outputPath \o <<".", "t", "m", "p", ".", "h", "2", "6", "4">>

\* TakeSnapshot has been called; an earlier run may have left a file at the
\* output path.
TsInit ==
    /\ tsImpl \in TsImpls
    /\ outputPath \in OutputPaths
    /\ files \in SUBSET {outputPath}
    /\ tsPc = "start"
    /\ tsRet = "none"
    /\ tsWarned = FALSE
    /\ ffmpeg = "none"
    /\ hadInput = FALSE

\* TakeSnapshot returns ret; its deferred os.Remove calls have run on what
\* the body left behind.
TsReturn(ret, left, removed) ==
    /\ tsPc' = "returned"
    /\ tsRet' = ret
    /\ files' = left \ removed

\* H264, lines 407-417: exec.LookPath("ffmpeg"), the deferred remove of the
\* temporary file, NewH264Writer (os.Create).
H264Setup(result) ==
    /\ tsImpl = "h264"
    /\ tsPc = "start"
    /\ CASE result = "noFfmpeg" -> TsReturn("error", files, {})
         [] result = "createErr" -> TsReturn("error", files, {tmpH264})
         [] result = "ok" ->
                /\ files' = files \cup {tmpH264}
                /\ tsPc' = "startStream"
                /\ tsRet' = tsRet
    /\ UNCHANGED <<tsImpl, outputPath, tsWarned, ffmpeg, hadInput>>

\* H264, lines 424-437: startStream.
H264StartStream(result) ==
    /\ tsImpl = "h264"
    /\ tsPc = "startStream"
    /\ IF result = "err"
          THEN TsReturn("error", files, {tmpH264})
          ELSE /\ tsPc' = "wait"
               /\ UNCHANGED <<tsRet, files>>
    /\ UNCHANGED <<tsImpl, outputPath, tsWarned, ffmpeg, hadInput>>

\* H264, lines 440-442: case <-gotVideo.
H264GotVideo ==
    /\ tsImpl = "h264"
    /\ tsPc = "wait"
    /\ tsPc' = "capture"
    /\ UNCHANGED <<tsImpl, outputPath, files, tsRet, tsWarned, ffmpeg, hadInput>>

\* H264, lines 443-445: case <-ctx.Done().
H264VideoTimeout ==
    /\ tsImpl = "h264"
    /\ tsPc = "wait"
    /\ TsReturn("error", files, {tmpH264})
    /\ UNCHANGED <<tsImpl, outputPath, tsWarned, ffmpeg, hadInput>>

\* H264, lines 463-472: h264w.Close(); h264ToWebM or h264ToJPEG, whose
\* error is returned as it is.
H264Extract(result) ==
    /\ tsImpl = "h264"
    /\ tsPc = "capture"
    /\ ffmpeg' = result
    /\ hadInput' = (tmpH264 \in files)
    /\ IF result = "ok"
          THEN TsReturn("nil", files \cup {outputPath}, {tmpH264})
          ELSE TsReturn("error", files, {tmpH264})
    /\ UNCHANGED <<tsImpl, outputPath, tsWarned>>

\* WebM, lines 209-224: NewRecorder opens no file; startStream.
WebmStartStream(result) ==
    /\ tsImpl = "webm"
    /\ tsPc = "start"
    /\ IF result = "err"
          THEN TsReturn("error", files, {})
          ELSE /\ tsPc' = "wait"
               /\ UNCHANGED <<tsRet, files>>
    /\ UNCHANGED <<tsImpl, outputPath, tsWarned, ffmpeg, hadInput>>

\* WebM, lines 228-230: case <-gotData, then three seconds of recording;
\* with samples, initWriters creates the file, and a track that delivers no
\* sample leaves none.
WebmGotData(samples) ==
    /\ tsImpl = "webm"
    /\ tsPc = "wait"
    /\ tsPc' = "capture"
    /\ files' = IF samples THEN files \cup {webmPath} ELSE files
    /\ UNCHANGED <<tsImpl, outputPath, tsRet, tsWarned, ffmpeg, hadInput>>

\* WebM, lines 231-233: case <-ctx.Done(): nothing was recorded.
WebmDataTimeout ==
    /\ tsImpl = "webm"
    /\ tsPc = "wait"
    /\ tsPc' = "capture"
    /\ UNCHANGED <<tsImpl, outputPath, files, tsRet, tsWarned, ffmpeg, hadInput>>

\* os.Rename(from, to), its error dropped (line 244).
Rename(fs, from, to, result) ==
    IF result = "ok" /\ from \in fs THEN (fs \ {from}) \cup {to} ELSE fs

\* WebM, lines 235-249: rec.Close() returns nil; for a JPEG target
\* ExtractSnapshot runs ffmpeg, and when that fails the recording is renamed
\* and nil is returned with a warning.
WebmFinish(result, rename) ==
    /\ tsImpl = "webm"
    /\ tsPc = "capture"
    /\ result = "ok" => webmPath \in files
    /\ IF ~wantJPEG
          THEN /\ TsReturn("nil", files, {})
               /\ UNCHANGED <<tsWarned, ffmpeg, hadInput>>
          ELSE /\ ffmpeg' = result
               /\ hadInput' = (webmPath \in files)
               /\ IF result = "ok"
                     THEN /\ TsReturn("nil", files \cup {outputPath}, {webmPath})
                          /\ UNCHANGED tsWarned
                     ELSE /\ TsReturn("nil",
                                      Rename(files, webmPath, finalWebM, rename),
                                      {webmPath})
                          /\ tsWarned' = TRUE
    /\ UNCHANGED <<tsImpl, outputPath>>

\* ========================================================== the event loop
\* What a pulled message carries: data that does not decode (base64 or
\* JSON, lines 189-197), or a resource update with some number of events.
Messages ==
    {[data |-> "undecodable", events |-> 0]}
    \cup {[data |-> "update", events |-> n] : n \in 0..MaxBatch}

\* What l.pull may return: up to MaxBatch messages.
Batches ==
    UNION {[1..n -> Messages] : n \in 0..MaxBatch}

\* parseMessage, lines 188-223: how many events it returns for a message
\* (nil when the data does not decode or the update has no events, else one
\* Event for each entry of the update's events).
parseMessage(msg) == IF msg.data = "update" THEN msg.events ELSE 0

\* The events parseMessage returns for message i of the pull (none past the
\* end).
EventsAt(msgs, i) == IF i \in DOMAIN msgs THEN parseMessage(msgs[i]) ELSE 0

\* Listen has been called (listener.go line 78).
ListenInit ==
    /\ listenPc = "select"
    /\ listenCtx = FALSE
    /\ listenRet = "none"
    /\ pauseLeft = 0
    /\ batch = <<>>
    /\ msgIdx = 0
    /\ toHandle = 0
    /\ ackIDs = <<>>
    /\ pulls = 0
    /\ pullErrs = 0
    /\ handled = 0
    /\ acked = <<>>
    /\ ackRet = "none"

\* EventsCmd.Run, events.go 69-78: the interrupt signal calls cancel().
ListenCancel ==
    /\ ~listenCtx
    /\ listenPc # "returned"
    /\ listenCtx' = TRUE
    /\ UNCHANGED <<listenPc, listenRet, pauseLeft, batch, msgIdx, toHandle,
                   ackIDs, pulls, pullErrs, handled, acked, ackRet>>

\* Listen returns ctx.Err().
ListenReturn ==
    /\ listenPc' = "returned"
    /\ listenRet' = "ctx.Err"

\* Lines 82-88: select { case <-ctx.Done(): return ctx.Err(); default: },
\* then the call of l.pull.
ListenSelect ==
    /\ listenPc = "select"
    /\ IF listenCtx
          THEN /\ ListenReturn
               /\ UNCHANGED pulls
          ELSE /\ pulls < MaxPulls
               /\ listenPc' = "pull"
               /\ pulls' = pulls + 1
               /\ UNCHANGED listenRet
    /\ UNCHANGED <<listenCtx, pauseLeft, batch, msgIdx, toHandle, ackIDs,
                   pullErrs, handled, acked, ackRet>>

\* Mutant of AfterPullErr: a failed pull ends the loop.
AfterPullErrFatal(done) == "returned"

\* Lines 89-96: a failed pull returns only when the context is done;
\* otherwise it is printed and followed by the pause.
AfterPullErr(done) == IF done THEN "returned" ELSE "sleep"

\* l.pull returns an error.
PullErr ==
    /\ listenPc = "pull"
    /\ pullErrs' = pullErrs + 1
    /\ listenPc' = AfterPullErr(listenCtx)
    /\ IF AfterPullErr(listenCtx) = "returned"
          THEN /\ listenRet' = "ctx.Err"
               /\ UNCHANGED pauseLeft
          ELSE /\ pauseLeft' = pullPauseSecs
               /\ UNCHANGED listenRet
    /\ UNCHANGED <<listenCtx, batch, msgIdx, toHandle, ackIDs, pulls, handled,
                   acked, ackRet>>

\* l.pull returns messages (lines 88, 98-100): a new ackIDs slice, and the
\* range loop parses the first message.
PullOk(msgs) ==
    /\ listenPc = "pull"
    /\ batch' = msgs
    /\ msgIdx' = 1
    /\ toHandle' = EventsAt(msgs, 1)
    /\ ackIDs' = <<>>
    /\ handled' = 0
    /\ listenPc' = "handle"
    /\ UNCHANGED <<listenCtx, listenRet, pauseLeft, pulls, pullErrs, acked,
                   ackRet>>

\* Lines 101-103: handler(event), called in the loop's own goroutine, one
\* event after the other.
HandleEvent ==
    /\ listenPc = "handle"
    /\ toHandle > 0
    /\ toHandle' = toHandle - 1
    /\ handled' = handled + 1
    /\ UNCHANGED <<listenPc, listenCtx, listenRet, pauseLeft, batch, msgIdx,
                   ackIDs, pulls, pullErrs, acked, ackRet>>

\* Mutant of AppendAck: a message that gave no event is left out.
AppendAckIfEvents(ids, msgs, i) ==
    IF EventsAt(msgs, i) = 0 THEN ids ELSE Append(ids, i)

\* Line 104: ackIDs = append(ackIDs, msg.AckID), whatever parseMessage
\* returned for the message.
AppendAck(ids, msgs, i) == Append(ids, i)

\* Lines 99-104: the events of a message are done; its id is appended and
\* the range loop goes to the next message and parses it.
NextMessage ==
    /\ listenPc = "handle"
    /\ msgIdx \in DOMAIN batch
    /\ toHandle = 0
    /\ ackIDs' = AppendAck(ackIDs, batch, msgIdx)
    /\ msgIdx' = msgIdx + 1
    /\ toHandle' = EventsAt(batch, msgIdx + 1)
    /\ UNCHANGED <<listenPc, listenCtx, listenRet, pauseLeft, batch, pulls,
                   pullErrs, handled, acked, ackRet>>

\* Mutant of AfterAck: a failed acknowledge ends the loop.
AfterAckFatal(result) == IF result = "err" THEN "returned" ELSE "select"

\* Lines 108-110: the error of l.acknowledge is printed; the loop goes round.
AfterAck(result) == "select"

\* Lines 107-111: after the range loop, one l.acknowledge for the ids when
\* there is any; back to the top of the loop.
Acknowledge(result) ==
    /\ listenPc = "handle"
    /\ msgIdx > Len(batch)
    /\ IF Len(ackIDs) > 0
          THEN /\ acked' = ackIDs
               /\ ackRet' = result
               /\ listenPc' = AfterAck(result)
          ELSE /\ result = "ok"
               /\ acked' = <<>>
               /\ ackRet' = "none"
               /\ listenPc' = "select"
    /\ listenRet' = IF listenPc' = "returned" THEN "ack:err" ELSE listenRet
    /\ UNCHANGED <<listenCtx, pauseLeft, batch, msgIdx, toHandle, ackIDs,
                   pulls, pullErrs, handled>>

\* A second of the pause passes.
ListenTick ==
    /\ listenPc = "sleep"
    /\ pauseLeft > 0
    /\ pauseLeft' = pauseLeft - 1
    /\ UNCHANGED <<listenPc, listenCtx, listenRet, batch, msgIdx, toHandle,
                   ackIDs, pulls, pullErrs, handled, acked, ackRet>>

\* Lines 94-95: time.Sleep is over; continue.
ListenSleepOver ==
    /\ listenPc = "sleep"
    /\ pauseLeft = 0
    /\ listenPc' = "select"
    /\ UNCHANGED <<listenCtx, listenRet, pauseLeft, batch, msgIdx, toHandle,
                   ackIDs, pulls, pullErrs, handled, acked, ackRet>>

\* No call of NewSession is followed: one that has no candidate to gather
\* and has not started.
IdleNs ==
    /\ NsInit
    /\ nsAvail = {}

\* ========================================================= specifications
\* The orchestrator, with the session of the other specification left as
\* NewSession returned it.
\* The parts a specification does not follow stay as they start.
IdleCap == CapInit /\ command = "events"
IdleTs ==
    TsInit /\ tsImpl = "h264" /\ outputPath = <<"s">> \o dotJPG /\ files = {}

Init ==
    /\ OrchInit
    /\ SessInit
    /\ ReaderInit
    /\ writer = "file"
    /\ IdleCap
    /\ IdleTs
    /\ PliInit
    /\ ListenInit
    /\ HwInit
    /\ IdleNs
    /\ TmInit

\* The command's default flags: --capture is on, --clip is off.
DefaultInit == Init /\ Capture /\ ~Clip

Next ==
    \/ (\E event \in Events : Handler(event)) /\ UNCHANGED notOrch
    \/ (\E s \in sleepers : Evict(s)) /\ UNCHANGED notOrch
    \/ Tick /\ UNCHANGED notOrch
    \/ SnapStep /\ UNCHANGED notOrch
    \/ ClipStep /\ UNCHANGED notOrch
    \/ (\E c \in closers : CloserClose(c)) /\ UNCHANGED notOrch

Spec == Init /\ [][Next]_vars

\* The events that start jobs; the others are displayed and dropped.
ActionableEvents == {event \in Events : isActionableEvent(event.EventType)}

\* The orchestrator fed with actionable events only.
JobsNext ==
    \/ (\E event \in ActionableEvents : Handler(event)) /\ UNCHANGED notOrch
    \/ (\E s \in sleepers : Evict(s)) /\ UNCHANGED notOrch
    \/ Tick /\ UNCHANGED notOrch
    \/ SnapStep /\ UNCHANGED notOrch
    \/ ClipStep /\ UNCHANGED notOrch
    \/ (\E c \in closers : CloserClose(c)) /\ UNCHANGED notOrch

\* Only the jobs are assumed to run on: nothing is assumed of the passing of
\* time or of the eviction goroutines.
JobsLiveSpec ==
    /\ Init
    /\ [][JobsNext]_vars
    /\ WF_orchVars(SnapStep)
    /\ WF_orchVars(ClipStep)

\* With --clip off no clip job is ever started: the steps that are left.
DefaultNext ==
    \/ (\E event \in Events : Handler(event)) /\ UNCHANGED notOrch
    \/ (\E s \in sleepers : Evict(s)) /\ UNCHANGED notOrch
    \/ Tick /\ UNCHANGED notOrch
    \/ SnapStep /\ UNCHANGED notOrch

\* The command run with its default flags. Its goroutines are goroutines of
\* a running process: each is scheduled again and again, its calls return,
\* and time passes.
DefaultLiveSpec ==
    /\ DefaultInit
    /\ [][DefaultNext]_vars
    /\ WF_orchVars(SnapStep)
    /\ WF_orchVars(Tick)
    /\ \A k \in {DedupKey(e) : e \in Events} :
           WF_orchVars(\E s \in sleepers : s.key = k /\ Evict(s))

\* One session, from NewSession's return on, with the orchestrator idle.
SessionInit ==
    /\ OrchInit
    /\ ~Capture
    /\ ~Clip
    /\ SessInit
    /\ ReaderInit
    /\ writer = "file"
    /\ IdleCap
    /\ IdleTs
    /\ PliInit
    /\ ListenInit
    /\ HwInit
    /\ IdleNs
    /\ TmInit

SessionNext ==
    \/ (\E msid \in SessionIDs : SetAnswerApplied(msid)) /\ UNCHANGED notSess
    \/ (\E msid \in SessionIDs : SetAnswerRejected(msid)) /\ UNCHANGED notSess
    \/ NoAnswer /\ UNCHANGED notSess
    \/ (\E c \in Callers : CloseEnter(c)) /\ UNCHANGED notSess
    \/ (\E c \in Callers : CloseCancel(c)) /\ UNCHANGED notSess
    \/ (\E c \in Callers, result \in {"ok", "err"} : CloseStop(c, result))
          /\ UNCHANGED notSess
    \/ (\E c \in Callers : ClosePeer(c)) /\ UNCHANGED notSess
    \/ (\E state \in ICEStates : ICEConnectionStateChange(state))
          /\ UNCHANGED notSess
    \/ MinutePasses /\ UNCHANGED notSess
    \/ ExtendLoopCancelled /\ UNCHANGED notSess
    \/ ExtendLoopTick /\ UNCHANGED notSess
    \/ (\E result \in {"ok", "err"} : ExtendReturns(result))
          /\ UNCHANGED notSess
    \/ PliLoopCancelled /\ UNCHANGED notSess

SessionSpec == SessionInit /\ [][SessionNext]_vars

\* One reader loop of each kind, fed the packets of its track in any order.
ReaderSpecInit ==
    /\ OrchInit
    /\ ~Capture
    /\ ~Clip
    /\ SessInit
    /\ ReaderInit
    /\ IdleCap
    /\ IdleTs
    /\ PliInit
    /\ ListenInit
    /\ HwInit
    /\ IdleNs
    /\ TmInit

ReaderNext ==
    \/ ReaderCtxCancel /\ UNCHANGED notReader
    \/ WriterClose /\ UNCHANGED notReader
    \/ ReaderSelect /\ UNCHANGED notReader
    \/ ReadRTPErr /\ UNCHANGED notReader
    \/ (\E seq \in Packets, result \in {"ok", "err"} : ReadRTPOk(seq, result))
          /\ UNCHANGED notReader
    \/ PopNil /\ UNCHANGED notReader
    \/ (\E result \in {"ok", "err"} : PopWrite(result)) /\ UNCHANGED notReader

ReaderSpec == ReaderSpecInit /\ [][ReaderNext]_vars

\* The packet handed over is the oldest still to come.
InOrder(seq) == \A other \in track : seq <= other

\* One session with the reader loop of its video track, from NewSession's
\* return to the end of its tasks: the first extendInterval of the session,
\* its packets arriving in order, the context of the capture never cancelled
\* (so that only the session's Close can end the loops).
TeardownInit ==
    /\ OrchInit
    /\ ~Capture
    /\ ~Clip
    /\ SessInit
    /\ writer = "file"
    /\ readerPc = "off"
    /\ readerCtxDone = FALSE
    /\ track = Packets
    /\ builder = {}
    /\ popNext = 1
    /\ fileOpen = TRUE
    /\ sink = <<>>
    /\ reads = 0
    /\ writeFailed = FALSE
    /\ IdleCap
    /\ IdleTs
    /\ PliInit
    /\ ListenInit
    /\ HwInit
    /\ IdleNs
    /\ TmInit

TeardownNext ==
    \/ (\E msid \in SessionIDs : SetAnswerApplied(msid)) /\ UNCHANGED notSess
    \/ (\E msid \in SessionIDs : SetAnswerRejected(msid)) /\ UNCHANGED notSess
    \/ NoAnswer /\ UNCHANGED notSess
    \/ (\E c \in Callers : CloseEnter(c)) /\ UNCHANGED notSess
    \/ (\E c \in Callers : CloseCancel(c)) /\ UNCHANGED notSess
    \/ (\E c \in Callers, result \in {"ok", "err"} : CloseStop(c, result))
          /\ UNCHANGED notSess
    \/ (\E c \in Callers : ClosePeer(c)) /\ UNCHANGED notSess
    \/ (minute < extendInterval /\ MinutePasses) /\ UNCHANGED notSess
    \/ ExtendLoopCancelled /\ UNCHANGED notSess
    \/ ExtendLoopTick /\ UNCHANGED notSess
    \/ (\E result \in {"ok", "err"} : ExtendReturns(result))
          /\ UNCHANGED notSess
    \/ PliLoopCancelled /\ UNCHANGED notSess
    \/ OnTrack /\ UNCHANGED notReader
    \/ ReaderSelect /\ UNCHANGED notReader
    \/ (pcOpen /\ \E seq \in Packets : InOrder(seq) /\ ReadRTPOk(seq, "ok"))
          /\ UNCHANGED notReader
    \/ ReadRTPClosed /\ UNCHANGED notReader
    \/ PopNil /\ UNCHANGED notReader
    \/ PopWrite("ok") /\ UNCHANGED notReader

\* The calls made by Close return, and the goroutines of the loops are
\* scheduled.
TeardownSpec ==
    /\ TeardownInit
    /\ [][TeardownNext]_vars
    /\ WF_sessVars(\E c \in Callers : CloseCancel(c))
    /\ WF_sessVars(\E c \in Callers, result \in {"ok", "err"} : CloseStop(c, result))
    /\ WF_sessVars(\E c \in Callers : ClosePeer(c))
    /\ WF_sessVars(ExtendLoopCancelled)
    /\ WF_sessVars(\E result \in {"ok", "err"} : ExtendReturns(result))
    /\ WF_sessVars(PliLoopCancelled)
    /\ WF_readerVars(ReaderSelect)
    /\ WF_readerVars(ReadRTPClosed)
    /\ WF_readerVars(PopNil)
    /\ WF_readerVars(PopWrite("ok"))

\* One capture of each command, from the call of RecordClip or TakeSnapshot.
CaptureInit ==
    /\ OrchInit
    /\ ~Capture
    /\ ~Clip
    /\ SessInit
    /\ ReaderInit
    /\ writer = "file"
    /\ CapInit
    /\ IdleTs
    /\ PliInit
    /\ ListenInit
    /\ HwInit
    /\ IdleNs
    /\ TmInit

CaptureNext ==
    \/ (\E why \in {"noFfmpeg", "createErr"} : CapSetupErr(why))
           /\ UNCHANGED notCap
    \/ CapSetupOk /\ UNCHANGED notCap
    \/ CapNewSessionErr /\ UNCHANGED notCap
    \/ CapNewSessionOk /\ UNCHANGED notCap
    \/ CapGenerateErr /\ UNCHANGED notCap
    \/ CapGenerateOk /\ UNCHANGED notCap
    \/ CapSetAnswerErr /\ UNCHANGED notCap
    \/ CapSetAnswerOk /\ UNCHANGED notCap
    \/ CapGotVideo /\ UNCHANGED notCap
    \/ CapVideoTimeout /\ UNCHANGED notCap
    \/ CapRecordingDone /\ UNCHANGED notCap
    \/ (\E result \in {"ok", "err"} : CapFfmpegDone(result)) /\ UNCHANGED notCap
    \/ CapCtxTimeout /\ UNCHANGED notCap
    \/ CloserWakes /\ UNCHANGED notCap
    \/ CloserCloses /\ UNCHANGED notCap
    \/ CapICEFailed /\ UNCHANGED notCap
    \/ CapTick /\ UNCHANGED notCap
    \/ ProcessExit /\ UNCHANGED notCap

\* The calls of the capture return, its timers expire, its goroutines are
\* scheduled while the process runs, and a command whose Run has returned
\* exits.
CaptureSpec ==
    /\ CaptureInit
    /\ [][CaptureNext]_vars
    /\ WF_capVars((\E why \in {"noFfmpeg", "createErr"} : CapSetupErr(why))
                  \/ CapSetupOk)
    /\ WF_capVars(CapNewSessionErr \/ CapNewSessionOk)
    /\ WF_capVars(CapGenerateErr \/ CapGenerateOk)
    /\ WF_capVars(CapSetAnswerErr \/ CapSetAnswerOk)
    /\ WF_capVars(CapVideoTimeout)
    /\ WF_capVars(CapRecordingDone)
    /\ WF_capVars(\E result \in {"ok", "err"} : CapFfmpegDone(result))
    /\ WF_capVars(CapCtxTimeout)
    /\ WF_capVars(CloserWakes)
    /\ WF_capVars(CloserCloses)
    /\ WF_capVars(CapTick)
    /\ WF_capVars(ProcessExit)

\* The keyframe-request loop of one session, from NewSession to Close.
PliSpecInit ==
    /\ OrchInit
    /\ ~Capture
    /\ ~Clip
    /\ SessInit
    /\ ReaderInit
    /\ writer = "file"
    /\ IdleCap
    /\ IdleTs
    /\ PliInit
    /\ ListenInit
    /\ HwInit
    /\ IdleNs
    /\ TmInit

PliNext ==
    \/ (\E msid \in SessionIDs : SetAnswerApplied(msid)) /\ UNCHANGED notSess
    \/ (\E msid \in SessionIDs : SetAnswerRejected(msid)) /\ UNCHANGED notSess
    \/ NoAnswer /\ UNCHANGED notSess
    \/ (\E c \in Callers : CloseEnter(c)) /\ UNCHANGED notSess
    \/ (\E c \in Callers : CloseCancel(c)) /\ UNCHANGED notSess
    \/ (\E c \in Callers, result \in {"ok", "err"} : CloseStop(c, result))
           /\ UNCHANGED notSess
    \/ (\E c \in Callers : ClosePeer(c)) /\ UNCHANGED notSess
    \/ PliLoopCancelled /\ UNCHANGED notSess
    \/ (\E r \in DOMAIN Receivers : TrackStarts(r)) /\ UNCHANGED notPli
    \/ (\E failed \in SUBSET DOMAIN Receivers : PliTick(failed))
           /\ UNCHANGED notSessPli

PliSpec == PliSpecInit /\ [][PliNext]_vars

\* The event loop of the events command, from the call of Listen.
ListenSpecInit ==
    /\ OrchInit
    /\ ~Capture
    /\ ~Clip
    /\ SessInit
    /\ ReaderInit
    /\ writer = "file"
    /\ IdleCap
    /\ IdleTs
    /\ PliInit
    /\ ListenInit
    /\ HwInit
    /\ IdleNs
    /\ TmInit

ListenNext ==
    \/ ListenCancel /\ UNCHANGED notListen
    \/ ListenSelect /\ UNCHANGED notListen
    \/ PullErr /\ UNCHANGED notListen
    \/ (\E msgs \in Batches : PullOk(msgs)) /\ UNCHANGED notListen
    \/ HandleEvent /\ UNCHANGED notListen
    \/ NextMessage /\ UNCHANGED notListen
    \/ (\E result \in {"ok", "err"} : Acknowledge(result))
           /\ UNCHANGED notListen
    \/ ListenTick /\ UNCHANGED notListen
    \/ ListenSleepOver /\ UNCHANGED notListen

\* The calls the loop makes return (a pull whose context is cancelled is
\* abandoned by the HTTP client), its pause ends and its goroutine is
\* scheduled.
ListenSpec ==
    /\ ListenSpecInit
    /\ [][ListenNext]_vars
    /\ WF_listenVars(ListenSelect)
    /\ WF_listenVars(PullErr \/ \E msgs \in Batches : PullOk(msgs))
    /\ WF_listenVars(HandleEvent)
    /\ WF_listenVars(NextMessage)
    /\ WF_listenVars(\E result \in {"ok", "err"} : Acknowledge(result))
    /\ WF_listenVars(ListenTick)
    /\ WF_listenVars(ListenSleepOver)

\* The events command run with --clip and --capture=false: the loop of
\* Listen calling the handler of EventsCmd.Run, and the clip jobs the handler
\* starts.
EventLoopInit ==
    /\ OrchInit
    /\ ~Capture
    /\ Clip
    /\ SessInit
    /\ ReaderInit
    /\ writer = "file"
    /\ IdleCap
    /\ IdleTs
    /\ PliInit
    /\ ListenInit
    /\ HwInit
    /\ IdleNs
    /\ TmInit

\* listener.go 101-103 with events.go 87-137: handler(event) is the closure
\* of EventsCmd.Run, run in the loop's goroutine for one event of the message.
Deliver(event) ==
    /\ HandleEvent
    /\ Handler(event)

\* The pulls followed here: messages that each carry one event.
LoopBatches ==
    {b \in Batches : \A i \in DOMAIN b : b[i] = [data |-> "update", events |-> 1]}

\* The events followed here: those of one camera, with a correlation id.
LoopEvents ==
    {event \in Events : event.DeviceName # "" /\ event.EventID # ""}

EventLoopNext ==
    \/ ListenSelect /\ UNCHANGED notListen
    \/ (\E msgs \in LoopBatches : PullOk(msgs)) /\ UNCHANGED notListen
    \/ (\E event \in LoopEvents : Deliver(event)) /\ UNCHANGED notOrchListen
    \/ NextMessage /\ UNCHANGED notListen
    \/ (\E result \in {"ok", "err"} : Acknowledge(result))
           /\ UNCHANGED notListen
    \/ ClipStep /\ UNCHANGED notOrch
    \/ (\E c \in closers : CloserClose(c)) /\ UNCHANGED notOrch

\* Only the loop's own goroutine is assumed to run on and its HTTP calls to
\* return; nothing is assumed of the jobs, which may take any time or never
\* end.
EventLoopSpec ==
    /\ EventLoopInit
    /\ [][EventLoopNext]_vars
    /\ WF_listenVars(ListenSelect)
    /\ WF_listenVars(\E msgs \in LoopBatches : PullOk(msgs))
    /\ WF_listenVars(\E event \in LoopEvents : Deliver(event))
    /\ WF_listenVars(NextMessage)
    /\ WF_listenVars(\E result \in {"ok", "err"} : Acknowledge(result))

\* Two cameras that see the same moment.
Cameras == {"enterprises/p/devices/d1", "enterprises/p/devices/d2"}
FirstCamera == "enterprises/p/devices/d1"

\* Their events, as parseMessage builds them (listener.go 203-222): the
\* device from the update's name, the type from its events, a correlation id
\* of its own for each event, the timestamp of the update.
\* (a type that starts jobs and one that is only displayed).
CameraEvents ==
    [DeviceName : Cameras, EventType : {MotionType, SoundType},
     EventID : {"evt1", "evt2"}, Timestamp : Timestamps]

\* The first camera's report of a moment arrives before any other report of
\* it; the second camera's reports arrive at any time.
InCameraOrder(event) ==
    event.DeviceName = FirstCamera => ~Loaded(DedupKey(event))

TwoCamNext ==
    \/ (\E event \in CameraEvents : InCameraOrder(event) /\ Handler(event))
           /\ UNCHANGED notOrch
    \/ (\E s \in sleepers : Evict(s)) /\ UNCHANGED notOrch
    \/ Tick /\ UNCHANGED notOrch
    \/ SnapStep /\ UNCHANGED notOrch
    \/ ClipStep /\ UNCHANGED notOrch
    \/ (\E c \in closers : CloserClose(c)) /\ UNCHANGED notOrch

\* The orchestrator run with --capture --clip and fed by the two cameras.
TwoCamInit == Init /\ Capture /\ Clip

TwoCamSpec == TwoCamInit /\ [][TwoCamNext]_vars

\* One call of NewSession alone, for every set of candidates there is to
\* gather.
NewSessionInit ==
    /\ OrchInit
    /\ SessInit
    /\ ReaderInit
    /\ IdleCap
    /\ IdleTs
    /\ PliInit
    /\ ListenInit
    /\ HwInit
    /\ NsInit
    /\ TmInit
    /\ ~Capture
    /\ ~Clip
    /\ writer = "file"

NewSessionNext ==
    \/ NsCallFails /\ UNCHANGED notNs
    \/ NsCallOk /\ UNCHANGED notNs
    \/ (\E c \in Candidates : NsCandidate(c)) /\ UNCHANGED notNs
    \/ NsGatherComplete /\ UNCHANGED notNs
    \/ NsReturn /\ UNCHANGED notNs

NewSessionSpec ==
    NewSessionInit /\ [][NewSessionNext]_vars

\* The goroutines of one command that call AccessToken on its TokenManager,
\* and the clock.
TokenInit ==
    /\ OrchInit
    /\ ~Capture
    /\ ~Clip
    /\ SessInit
    /\ ReaderInit
    /\ writer = "file"
    /\ IdleCap
    /\ IdleTs
    /\ PliInit
    /\ ListenInit
    /\ HwInit
    /\ IdleNs
    /\ TmInit

TokenNext ==
    \/ (\E c \in TmCallers : TmCall(c)) /\ UNCHANGED notTm
    \/ (\E c \in TmCallers : TmLock(c)) /\ UNCHANGED notTm
    \/ (\E c \in TmCallers : TmCheck(c)) /\ UNCHANGED notTm
    \/ (\E c \in TmCallers : TmRefreshErr(c)) /\ UNCHANGED notTm
    \/ (\E c \in TmCallers, token \in AccessTokens, expiresIn \in ExpiresIns :
            TmRefreshOk(c, token, expiresIn)) /\ UNCHANGED notTm
    \/ TmTick /\ UNCHANGED notTm

TokenSpec ==
    TokenInit /\ [][TokenNext]_vars

\* One H264Writer: its reader loop and the callers of its Close, in any
\* interleaving.
WriterSpecInit ==
    /\ OrchInit
    /\ ~Capture
    /\ ~Clip
    /\ SessInit
    /\ ReaderInit
    /\ writer = "file"
    /\ IdleCap
    /\ IdleTs
    /\ PliInit
    /\ ListenInit
    /\ HwInit
    /\ IdleNs
    /\ TmInit

WriterNext ==
    \/ HwPop /\ UNCHANGED notHw
    \/ HwLock /\ UNCHANGED notHw
    \/ HwCheck /\ UNCHANGED notHw
    \/ (\E result \in {"ok", "err"} : HwWrite(result)) /\ UNCHANGED notHw
    \/ HwUnlock /\ UNCHANGED notHw
    \/ (\E c \in Callers : HwCloseLock(c)) /\ UNCHANGED notHw
    \/ (\E c \in Callers, result \in {"nil", "err"} : HwCloseBody(c, result))
           /\ UNCHANGED notHw

WriterSpec == WriterSpecInit /\ [][WriterNext]_vars

\* One call of either TakeSnapshot, for each output path.
SnapshotInit ==
    /\ OrchInit
    /\ ~Capture
    /\ ~Clip
    /\ SessInit
    /\ ReaderInit
    /\ writer = "file"
    /\ IdleCap
    /\ TsInit
    /\ PliInit
    /\ ListenInit
    /\ HwInit
    /\ IdleNs
    /\ TmInit

SnapshotNext ==
    \/ (\E result \in {"noFfmpeg", "createErr", "ok"} : H264Setup(result))
           /\ UNCHANGED notTs
    \/ (\E result \in {"ok", "err"} : H264StartStream(result))
           /\ UNCHANGED notTs
    \/ H264GotVideo /\ UNCHANGED notTs
    \/ H264VideoTimeout /\ UNCHANGED notTs
    \/ (\E result \in {"ok", "err"} : H264Extract(result)) /\ UNCHANGED notTs
    \/ (\E result \in {"ok", "err"} : WebmStartStream(result))
           /\ UNCHANGED notTs
    \/ (\E samples \in BOOLEAN : WebmGotData(samples)) /\ UNCHANGED notTs
    \/ WebmDataTimeout /\ UNCHANGED notTs
    \/ (\E result, rename \in {"ok", "err"} : WebmFinish(result, rename))
           /\ UNCHANGED notTs

SnapshotSpec == SnapshotInit /\ [][SnapshotNext]_vars

\* ======================================================= orchestrator claims
\* Events whose handling takes a sequence number.
NewActionable(event) ==
    DedupKey(event) \notin dedup /\ isActionableEvent(event.EventType)

\* The jobs of one key dispatched less than DedupWindow ago.
RecentOf(key, kind) == {r \in recent : r.key = key /\ r.kind = kind}

\* The table of keys changes: only such a step can be the handling of an
\* event whose key is new, which stores the key before anything else.
TableChanges == dedup' # dedup

\* C1: at every instant at most one snapshot job and at most one clip job is
\* in flight, whatever events arrive and whenever.
C1_AtMostOneInFlight ==
    /\ Cardinality(snapJobs) <= 1
    /\ Cardinality(clipJobs) <= 1

\* C1 witness: a snapshot job and a clip job are in flight and a further
\* event has just been refused both slots.
C1_Witness ==
    /\ Cardinality(snapJobs) = 1
    /\ Cardinality(clipJobs) = 1
    /\ last.snap = "skipped"
    /\ last.clip = "skipped"

\* C2: an actionable event that finds the slot of a kind held is refused at
\* once with a skip indication, the handler completing without taking the
\* slot; and a job only ever starts in the handler call of its own event, with
\* the slot free at that moment, so a refused job never runs later.
C2_RejectedNotQueued ==
    [][/\ TableChanges => \A e \in Events :
              (NewActionable(e) /\ Handler(e)) =>
                  /\ (Capture /\ e.EventID # "" /\ snapSem >= SnapSemCap) =>
                         /\ last'.snap = "skipped"
                         /\ snapJobs' = snapJobs
                         /\ snapSem' = snapSem
                  /\ (Clip /\ clipSem >= ClipSemCap) =>
                         /\ last'.clip = "skipped"
                         /\ clipJobs' = clipJobs
                         /\ clipSem' = clipSem
       /\ \A j \in snapJobs' :
              (j.seq \notin {i.seq : i \in snapJobs}) =>
                  /\ snapSem < SnapSemCap
                  /\ captureSeq' = captureSeq + 1
                  /\ j.seq = captureSeq'
                  /\ last'.snap = "started"
       /\ \A j \in clipJobs' :
              (j.seq \notin {i.seq : i \in clipJobs}) =>
                  /\ clipSem < ClipSemCap
                  /\ captureSeq' = captureSeq + 1
                  /\ j.seq = captureSeq'
                  /\ last'.clip = "started"
      ]_vars

\* C2 witness: the last event was refused the snapshot slot, the slot has
\* since been released, and no snapshot job runs.
C2_Witness ==
    /\ last.outcome = "actionable"
    /\ last.snap = "skipped"
    /\ snapSem = 0
    /\ snapJobs = {}

\* C3 as stated: events with one key arriving within DedupWindow of each
\* other dispatch at most one capture job.
C3_AtMostOneJob ==
    \A a, b \in recent : a.key = b.key => a = b

\* C3 amended: of the events with one key arriving within DedupWindow of each
\* other at most one dispatches capture jobs: at most one snapshot job and at
\* most one clip job, both for the same event.
C3_OneEventDispatches ==
    \A a, b \in recent :
        a.key = b.key => /\ a.seq = b.seq
                         /\ (a.kind = b.kind => a = b)

\* C3 witness: a duplicate has been discarded while a job dispatched for its
\* key less than DedupWindow ago is on record.
C3_Witness ==
    /\ last.repeated
    /\ \E r \in recent : r.key = last.key /\ r.age > 0

\* C4: with snapshot capture enabled, a Motion event with a correlation id
\* that finds its key new and the snapshot slot free starts one snapshot job;
\* a Motion event with the same timestamp and a correlation id delivered after
\* it starts none.
C4_TwoMotionEventsOneSnapshot ==
    [][\A e \in Events :
           (Capture /\ e.EventType = MotionType /\ e.EventID # "" /\ Handler(e)) =>
               /\ (DedupKey(e) \notin dedup /\ snapSem < SnapSemCap) =>
                      /\ snapJobs' = snapJobs \cup
                             {[seq |-> captureSeq', pc |-> "GenerateEventImage"]}
                      /\ Cardinality(snapJobs') = Cardinality(snapJobs) + 1
                      /\ Cardinality(RecentOf(DedupKey(e), "snapshot")') = 1
               /\ (RecentOf(DedupKey(e), "snapshot") # {}) =>
                      /\ snapJobs' = snapJobs
                      /\ recent' = recent
                      /\ captureSeq' = captureSeq
      ]_vars

\* C4 witness: the second of two Motion events with the same timestamp has
\* been discarded and exactly one snapshot job was dispatched for the pair.
C4_Witness ==
    /\ Capture
    /\ last.repeated
    /\ last.key = <<10>> \o MotionType
    /\ Cardinality(RecentOf(last.key, "snapshot")) = 1
    /\ \A r \in RecentOf(last.key, "snapshot") : r.age = 0

\* C5: an admission attempt of a kind succeeds whenever the slot of that kind
\* is free, whatever the other slot holds.
C5_SlotsIndependent ==
    [][TableChanges => \A e \in Events :
           (NewActionable(e) /\ Handler(e)) =>
               /\ (Capture /\ e.EventID # "" /\ snapSem < SnapSemCap) =>
                      /\ last'.snap = "started"
                      /\ Cardinality(snapJobs') = Cardinality(snapJobs) + 1
               /\ (Clip /\ clipSem < ClipSemCap) =>
                      /\ last'.clip = "started"
                      /\ Cardinality(clipJobs') = Cardinality(clipJobs) + 1
      ]_vars

\* C5 witness: the snapshot job and the clip job of one event run at the same
\* time.
C5_Witness ==
    \E s \in snapJobs : \E c \in clipJobs :
        /\ s.seq = c.seq
        /\ s.pc = "DownloadEventImage"
        /\ c.pc = "recording"

\* C6: a slot is held exactly while a job of its kind is in flight, and under
\* fair scheduling a held slot is free again later.
C6_SlotReleased ==
    /\ [](snapSem = Cardinality(snapJobs) /\ clipSem = Cardinality(clipJobs))
    /\ (snapSem > 0) ~> (snapSem = 0)
    /\ (clipSem > 0) ~> (clipSem = 0)

\* C6 witness: both jobs of the last event were admitted and both slots are
\* free again.
C6_Witness ==
    /\ last.snap = "started"
    /\ last.clip = "started"
    /\ snapSem = 0
    /\ clipSem = 0

\* C10: an entry stays for DedupWindow seconds counted from the event that
\* stored it and is evicted afterwards; a duplicate is discarded and leaves the
\* entry and its eviction as they are; an event whose key is not stored is
\* processed as a new event.
C10_FixedWindow ==
    /\ [][/\ \A s \in sleepers :
                 s.key \in dedup' =>
                     \E t \in sleepers' : t.key = s.key /\ t.left <= s.left
          /\ \A k \in dedup \ dedup' : seen[k] >= DedupWindow
          /\ \A e \in Events :
                 Handler(e) =>
                     IF DedupKey(e) \in dedup
                        THEN /\ UNCHANGED <<dedup, sleepers, seen, captureSeq,
                                            snapSem, clipSem, snapJobs, clipJobs,
                                            recent>>
                             /\ last'.outcome = last.outcome
                        ELSE /\ last'.key = DedupKey(e)
                             /\ ~last'.repeated
                             /\ DedupKey(e) \in dedup'
                             /\ seen'[DedupKey(e)] = 0
                             /\ [key |-> DedupKey(e), left |-> DedupWindow]
                                    \in sleepers'
         ]_vars
    /\ \A k \in {DedupKey(e) : e \in Events} : (k \in dedup) ~> (k \notin dedup)

\* C10 witness: a duplicate was discarded part-way through the window and the
\* eviction of its key is still due at the end of the original window.
C10_Witness ==
    /\ last.repeated
    /\ last.key \in DOMAIN seen
    /\ seen[last.key] > 0
    /\ seen[last.key] < DedupWindow
    /\ \A s \in sleepers :
           s.key = last.key => s.left = DedupWindow - seen[last.key]
    /\ \E s \in sleepers : s.key = last.key

\* The events whose type contains neither Motion nor Person.
QuietEvents ==
    {e \in Events : /\ ~Contains(e.EventType, <<"M","o","t","i","o","n">>)
                    /\ ~Contains(e.EventType, <<"P","e","r","s","o","n">>)}

\* C11: an event whose type contains neither Motion nor Person never takes a
\* slot, never starts a job and never takes a sequence number; it is recorded
\* in the dedup table and displayed (its key being new: a duplicate is dropped
\* before its type is looked at).
C11_NotActionableNoCapture ==
    [][TableChanges => \A e \in QuietEvents :
           (DedupKey(e) \notin dedup /\ Handler(e)) =>
               /\ <<captureSeq, snapSem, clipSem, snapJobs, clipJobs, recent>>'
                    = <<captureSeq, snapSem, clipSem, snapJobs, clipJobs, recent>>
               /\ DedupKey(e) \in dedup'
               /\ last'.key = DedupKey(e)
               /\ last'.outcome = "displayed"
               /\ last'.snap = "none"
               /\ last'.clip = "none"]_vars

\* C11 witness: with both captures enabled and both slots free a Sound event
\* was displayed and recorded, and no sequence number has been taken.
C11_Witness ==
    /\ Capture
    /\ Clip
    /\ last.outcome = "displayed"
    /\ last.key = DedupKey([DeviceName |-> "enterprises/p/devices/d1",
                            EventType |-> SoundType, EventID |-> "evt1",
                            Timestamp |-> 10])
    /\ last.key \in dedup
    /\ captureSeq = 0
    /\ snapSem = 0
    /\ clipSem = 0

\* C12: the snapshot slot is tried only with snapshot capture enabled and a
\* non-empty correlation id. An actionable event with an empty id leaves the
\* snapshot slot and jobs alone and prints no snapshot skip, while its clip
\* admission is decided by the clip slot alone.
C12_SnapshotNeedsCorrelationID ==
    [][TableChanges => \A e \in Events :
           (NewActionable(e) /\ Handler(e)) =>
               /\ (last'.snap # "none") <=> (Capture /\ e.EventID # "")
               /\ (e.EventID = "") =>
                      /\ snapSem' = snapSem
                      /\ snapJobs' = snapJobs
                      /\ last'.snap = "none"
                      /\ Clip =>
                            /\ last'.clip = IF clipSem < ClipSemCap
                                              THEN "started" ELSE "skipped"
                            /\ clipSem' = IF clipSem < ClipSemCap
                                            THEN clipSem + 1 ELSE clipSem
                      /\ ~Clip => last'.clip = "none"]_vars

\* C12 witness: with both captures enabled and the snapshot slot free, an
\* actionable event made no snapshot attempt and started its clip job.
C12_Witness ==
    /\ Capture
    /\ Clip
    /\ last.outcome = "actionable"
    /\ last.snap = "none"
    /\ last.clip = "started"
    /\ snapSem = 0
    /\ clipSem = 1

\* C13: every new actionable event raises the counter and takes the new value;
\* nothing else changes the counter; the jobs it starts carry that value, which
\* is above every value given before. So two jobs of one kind never have the
\* same number in their filenames.
C13_SeqStrictlyIncreasing ==
    /\ [][/\ captureSeq' >= captureSeq
          /\ TableChanges => \A e \in Events :
                 (NewActionable(e) /\ Handler(e)) =>
                     /\ captureSeq' > captureSeq
                     /\ \A r \in recent' \ recent : r.seq = captureSeq'
                     /\ \A j \in snapJobs' \ snapJobs : j.seq = captureSeq'
                     /\ \A j \in clipJobs' \ clipJobs : j.seq = captureSeq'
          /\ (captureSeq' # captureSeq) =>
                 \E e \in Events : NewActionable(e) /\ Handler(e)]_vars
    /\ [](\A r \in recent : r.seq <= captureSeq)
    /\ [](\A a, b \in recent :
              (a.kind = b.kind /\ a # b) => Pad3(a.seq) # Pad3(b.seq))

\* C13 witness: two snapshot jobs of different events are on record with
\* different numbers, and the clip of one event shares its snapshot's number.
C13_Witness ==
    /\ \E a, b \in recent :
           a.kind = "snapshot" /\ b.kind = "snapshot" /\ a.seq < b.seq
    /\ \E a, b \in recent :
           a.kind = "snapshot" /\ b.kind = "clip" /\ a.seq = b.seq

\* C21: every open session of a clip job belongs to a clip job that is still
\* in flight (still holding the clip slot), so that at most one such session
\* is open at any instant.
C21_SessionInsideJob ==
    /\ \A seq \in sessions : \E j \in clipJobs : j.seq = seq
    /\ Cardinality(sessions) <= ClipSemCap

\* ============================================================ session claims
SomeCloseReturned == \E c \in Callers : closePc[c] = "returned"

\* C7 as stated: once any call of Close has returned, exactly one call to the
\* stop API has been made.
C7_ExactlyOneStop == SomeCloseReturned => calls.stop = 1

\* C7: Close is idempotent. For any number of calls, sequential or concurrent,
\* at most one call is made to the stop API, and exactly one when SetAnswer
\* gave the session its stop function and a non-empty handle (none otherwise);
\* the peer connection is closed once; a call that finds the session closed
\* changes nothing and returns nil.
C7_CloseIdempotent ==
    /\ [](calls.stop <= 1 /\ calls.pcClose <= 1)
    /\ [](SomeCloseReturned =>
            /\ calls.pcClose = 1
            /\ calls.stop = IF answer \in {"ok", "err"} /\ mediaSessionID # ""
                              THEN 1 ELSE 0)
    /\ [](Cardinality({c \in Callers : closeRet[c] \in {"pc:nil", "pc:err"}}) <= 1
          /\ \A c \in Callers :
                closePc[c] = "returned" => closeRet[c] \in {"nil", "pc:nil", "pc:err"})
    /\ [][\A c \in Callers :
            (closed /\ closePc[c] = "idle" /\ closePc'[c] # "idle") =>
                /\ closePc'[c] = "returned"
                /\ closeRet'[c] = "nil"
                /\ calls' = calls
                /\ <<closed, ctxDone, pcOpen, mu>>' = <<closed, ctxDone, pcOpen, mu>>]_vars

\* Every caller has returned from Close on a session that had a handle: one
\* stop call, and the later callers got nil.
C7_Witness ==
    /\ \A c \in Callers : closePc[c] = "returned"
    /\ calls.stop = 1
    /\ \E c \in Callers : closeRet[c] = "nil"

extendLog == calls.extendLog

LastExtendFailed ==
    Len(extendLog) > 0 /\ extendLog[Len(extendLog)].result = "err"

\* The minute of the first tick of the extend ticker after minute m.
NextTickAfter(m) == ((m \div extendInterval) + 1) * extendInterval

\* C8: an error from the extend call ends neither the session nor the loop.
\* The step in which the call returns an error takes the loop back to its
\* select and closes, cancels and stops nothing; the tick that follows a
\* failed call (4 minutes on) is there for the loop to take, and taking it
\* makes the call again; the loop has returned only after Close cancelled it.
C8_ExtendErrorKeepsSession ==
    /\ [][(extendLoop = "extend" /\ extendLoop' # "extend" /\ LastExtendFailed') =>
            /\ extendLoop' = "select"
            /\ <<closed, ctxDone, pcOpen, closePc, closeRet>>'
                 = <<closed, ctxDone, pcOpen, closePc, closeRet>>
            /\ calls'.stop = calls.stop
            /\ calls'.pcClose = calls.pcClose
            /\ calls'.cancel = calls.cancel]_vars
    /\ []((LastExtendFailed /\ extendLoop = "select"
           /\ minute >= NextTickAfter(extendLog[Len(extendLog)].minute))
            => extendTick = 1)
    /\ [][(LastExtendFailed /\ calls'.ticksTaken > calls.ticksTaken)
            => extendLoop' = "extend"]_vars
    /\ [](extendLoop = "returned" => (ctxDone /\ closed /\ calls.cancel = 1))

\* The extend call failed at minute 4 and again at minute 8; the session is
\* open and the loop is back at its select.
C8_Witness ==
    /\ Len(extendLog) = 2
    /\ extendLog[1] = [minute |-> extendInterval, result |-> "err"]
    /\ extendLog[2] = [minute |-> 2 * extendInterval, result |-> "err"]
    /\ extendLoop = "select"
    /\ ~closed
    /\ ~ctxDone
    /\ calls.stop = 0

\* C9: the Connected channel is closed exactly once when the ICE connection
\* state reaches connected one or more times, and never when it does not.
C9_ConnectedOnce ==
    /\ calls.connectedClose = IF calls.timesConnected > 0 THEN 1 ELSE 0
    /\ Connected = IF calls.timesConnected > 0 THEN "closed" ELSE "open"

\* The connection state reached connected, left it and reached it again.
C9_Witness ==
    /\ calls.timesConnected >= 2
    /\ calls.connectedClose = 1
    /\ Connected = "closed"

\* C17: the first Close cancels the context of the two loops, then makes the
\* stop call, then closes the peer connection. The stop call is made with the
\* context cancelled and the connection still open; the connection is closed
\* once the stop call (if there is a handle) has been made; a failed stop call
\* still leads to the connection being closed, and what Close returns is what
\* closing the connection returned.
C17_CloseOrder ==
    /\ [][/\ (calls'.cancel > calls.cancel) => (calls.stop = 0 /\ pcOpen /\ pcOpen')
          /\ (calls'.stop > calls.stop) =>
                 /\ cancel => (ctxDone /\ calls.cancel = 1)
                 /\ pcOpen
                 /\ pcOpen'
          /\ (pcOpen /\ ~pcOpen') =>
                 /\ cancel => (ctxDone /\ calls.cancel = 1)
                 /\ calls.stop = IF stopFn /\ mediaSessionID # "" THEN 1 ELSE 0
         ]_vars
    /\ [](\A c \in Callers :
              (closePc[c] = "returned" /\ closeRet[c] # "nil") =>
                  /\ closeRet[c] \in {"pc:nil", "pc:err"}
                  /\ ~pcOpen)

\* C17 witness: the stop call failed, the peer connection was closed after
\* it, and Close returned nil.
C17_Witness ==
    /\ calls.stopErrs = 1
    /\ calls.cancel = 1
    /\ ctxDone
    /\ ~pcOpen
    /\ \E c \in Callers : closeRet[c] = "pc:nil"

\* The loops of the session and the reader of its track have all returned
\* (or were never started).
TasksOver ==
    /\ pliLoop \in {"off", "returned"}
    /\ extendLoop \in {"off", "returned"}
    /\ readerPc \in {"off", "returned"}

\* C18: once Close has marked the session closed, the keyframe-request loop,
\* the extension loop and the reader loop all come to an end, and once ended
\* none runs again.
C18_CloseEndsTasks ==
    /\ closed ~> TasksOver
    /\ [][(closed /\ pliLoop = "returned") => pliLoop' = "returned"]_vars
    /\ [][(closed /\ extendLoop = "returned") => extendLoop' = "returned"]_vars
    /\ [][(closed /\ readerPc = "returned") => readerPc' = "returned"]_vars
    /\ [][(~pcOpen /\ readerPc = "off") => readerPc' = "off"]_vars

\* C18 witness: Close found the extension loop inside its extend call and the
\* reader loop running; all three have since returned.
C18_Witness ==
    /\ closed
    /\ ~pcOpen
    /\ pliLoop = "returned"
    /\ extendLoop = "returned"
    /\ readerPc = "returned"
    /\ ~readerCtxDone
    /\ calls.ticksTaken > 0
    /\ Len(sink) > 0

\* C27: a loop of the session has been started only if the remote
\* description was applied; in a session whose SetAnswer returned the error
\* neither loop is ever started, no context is made, no tick is taken and no
\* extend call is made.
C27_LoopsAfterAnswer ==
    /\ (pliLoop # "off" \/ extendLoop # "off") => answer = "ok"
    /\ answer = "err" =>
           /\ pliLoop = "off"
           /\ extendLoop = "off"
           /\ ~cancel
           /\ calls.ticksTaken = 0
           /\ calls.extendLog = <<>>

\* C27 witness: the answer was rejected and the session has since been
\* closed, its stop call made, with neither loop started.
C27_Witness ==
    /\ answer = "err"
    /\ closed
    /\ ~pcOpen
    /\ calls.stop = 1
    /\ pliLoop = "off"
    /\ extendLoop = "off"

\* C31: the stop call is only ever made by a session that holds a non-empty
\* handle. A Close that has returned on a session whose SetAnswer was never
\* called made no stop call and closed the peer connection; a Close that has
\* returned on a session whose SetAnswer failed on the remote description
\* made the stop call when the handle it was given is not empty, and none
\* when it is empty; the handle is the one SetAnswer stored.
C31_StopNeedsHandle ==
    /\ [][(calls'.stop > calls.stop) =>
              /\ mediaSessionID # ""
              /\ mediaSessionID' = mediaSessionID
              /\ stopFn
              /\ answer \in {"ok", "err"}]_vars
    /\ []((SomeCloseReturned /\ answer = "none") =>
              /\ calls.stop = 0
              /\ calls.pcClose = 1
              /\ ~pcOpen)
    /\ []((SomeCloseReturned /\ answer = "err") =>
              /\ calls.stop = IF mediaSessionID # "" THEN 1 ELSE 0
              /\ calls.pcClose = 1
              /\ ~pcOpen)

\* C31 witness, first case: Close has returned on a session that was never
\* given an answer; no stop call, the peer connection closed.
C31_Witness ==
    /\ answer = "none"
    /\ SomeCloseReturned
    /\ calls.stop = 0
    /\ ~pcOpen

\* C31, second case: Close has returned on a session whose answer was
\* rejected, its stop call made with the handle.
C31_WitnessRejected ==
    /\ answer = "err"
    /\ mediaSessionID = "msid1"
    /\ SomeCloseReturned
    /\ calls.stop = 1
    /\ ~pcOpen

\* Some call of Close that did the closing has returned.
CloseReturned == \E c \in Callers : closePc[c] = "returned"

\* C30: once a call of Close has returned, the extension loop starts no
\* extend call.
C30_NoExtendAfterClose ==
    [][CloseReturned => ~(extendLoop # "extend" /\ extendLoop' = "extend")]_vars

\* The receivers with a video track.
VideoTracks == {r \in DOMAIN Receivers : r \in tracks /\ Receivers[r] = "video"}

\* C23: a tick is only ever served in a session whose answer was applied;
\* each tick served writes one picture-loss indication for every receiver
\* with a video track and none for an audio track, and leaves the loop at its
\* select whether or not a write failed.
C23_PliPerVideoTrack ==
    /\ [](pliLog # <<>> => answer = "ok")
    /\ [][(pliLog' # pliLog) =>
              /\ Len(pliLog') = Len(pliLog) + 1
              /\ pliLog'[Len(pliLog')].sent = VideoTracks
              /\ \A r \in pliLog'[Len(pliLog')].sent : Receivers[r] # "audio"
              /\ pliLoop' = "select"]_vars

\* C23 witness: with an audio and a video track, the write of the first tick
\* failed and the second tick was served all the same, each for the video
\* track alone, in a session that is not closed.
C23_Witness ==
    /\ ~closed
    /\ tracks = DOMAIN Receivers
    /\ Len(pliLog) = 2
    /\ pliLog[1].sent = {2}
    /\ pliLog[1].failed = {2}
    /\ pliLog[2].sent = {2}

\* ============================================================ reader claims
\* C14: whatever the order in which the packets of a track are handed over
\* (no packet late by maxLate or more), the loop writes the units to its sink
\* in the order of their timestamps and writes none twice.
C14_SinkInOrder ==
    \A i, j \in 1..Len(sink) : i < j => sink[i] < sink[j]

\* C15: for the file, stdout and pipe sinks, once a write has failed the loop
\* reads no further packet and writes no further unit.
C15_WriteErrorEndsLoop ==
    [][(writer \in {"file", "stdout", "pipe"} /\ writeFailed) =>
           /\ reads' = reads
           /\ sink' = sink
           /\ readerPc' = "returned"]_vars

\* C24: a loop returns only out of a failed track read, out of its select
\* with the context done, or (stdout and pipe) out of a failed write; the
\* return out of a failed read writes nothing; a loop at its select with the
\* context done reads and writes nothing more and returns; and a loop that
\* has returned reads and writes nothing again.
C24_ReaderLoopEnds ==
    /\ [][(readerPc # "returned" /\ readerPc' = "returned") =>
              /\ \/ readerPc = "ReadRTP"
                 \/ readerPc = "select" /\ readerCtxDone
                 \/ writer \in {"stdout", "pipe"} /\ writeFailed'
              /\ readerPc = "ReadRTP" => (sink' = sink /\ reads' = reads)]_vars
    /\ [][(readerPc = "select" /\ readerCtxDone) =>
              /\ readerPc' \in {"select", "returned"}
              /\ reads' = reads
              /\ sink' = sink]_vars
    /\ [][readerPc = "returned" =>
              /\ readerPc' = "returned"
              /\ reads' = reads
              /\ sink' = sink]_vars

\* C24 witness: the context was cancelled with packets still to come and the
\* loop, having read and written some, returned without reading the rest.
C24_Witness ==
    /\ readerPc = "returned"
    /\ readerCtxDone
    /\ writer = "file"
    /\ reads > 0
    /\ Len(sink) > 0
    /\ track # {}
    /\ ~writeFailed

\* =========================================================== capture claims
\* C16: when the connection-state callback has reported the failed state to
\* a capture that was streaming, the capture is reported as failed.
C16_FailureFailsJob ==
    (iceFailed /\ capOutcome # "none") => capOutcome = "failed"

\* C19: in a clip job that is reported as saved (its connection never having
\* failed), the raw file was written for the whole configured duration, and
\* the session was closed only after the transcoder was started, by the
\* closing goroutine, graceMillis or more after the context was done.
C19_ClipOrder ==
    (command = "events" /\ capOutcome = "saved" /\ ~iceFailed) =>
        /\ writingMs >= RecordMillis(command)
        /\ capSession = "closed" =>
               /\ closedAtPc \in {"ffmpeg", "returned"}
               /\ closerPc = "done"
               /\ sinceDone >= graceMillis

\* C26: the wait for the first video track ends once the context is done:
\* a capture that leaves the wait by returning does so with the context
\* done, the raw writer closed, a failure reported and the transcoder never
\* started, and a capture that has returned starts no transcoder later.
C26_VideoWaitBounded ==
    /\ [][(capPc = "waitVideo" /\ capPc' = "returned") =>
              /\ capCtx = "done"
              /\ rawFile' = "closed"
              /\ capOutcome' = "failed"
              /\ transcoderRuns' = 0]_vars
    /\ [][(capPc \in {"returned", "exited"}) =>
              transcoderRuns' = transcoderRuns]_vars
    /\ (capPc = "waitVideo" /\ capCtx = "done") ~> (capPc # "waitVideo")

\* C26 witness: a clip job whose stream started has used up its whole
\* deadline waiting for video and has returned a failure.
C26_Witness ==
    /\ command = "events"
    /\ capPc = "returned"
    /\ capOutcome = "failed"
    /\ closerPc # "none"
    /\ ctxLeft = 0
    /\ rawFile = "closed"
    /\ transcoderRuns = 0

\* A capture whose startStream returned an error: the raw writer was closed
\* and the closing goroutine was never started.
NegotiationFailed ==
    /\ capPc \in {"returned", "exited"}
    /\ rawFile = "closed"
    /\ closerPc = "none"

\* C28: a clip job whose session construction, stream generation or answer
\* failed is reported as failed, with its session (if it had one) closed at
\* that step and the transcoder never started; it does nothing more (no
\* second attempt), and the process of the events command goes on running.
C28_NegotiationFailureIsLocal ==
    /\ [](NegotiationFailed =>
              /\ capOutcome = "failed"
              /\ capSession \in {"none", "closed"}
              /\ capSession = "closed" =>
                     closedAtPc \in {"GenerateWebRTCStream", "SetAnswer"}
              /\ transcoderRuns = 0
              /\ command = "events" => capPc = "returned")
    /\ [][(NegotiationFailed /\ command = "events") => UNCHANGED capVars]_vars

\* C28 witness: the answer of a clip job was rejected and its session has
\* been closed.
C28_Witness ==
    /\ command = "events"
    /\ NegotiationFailed
    /\ capSession = "closed"
    /\ closedAtPc = "SetAnswer"

\* C29: while RecordClip sleeps for the configured duration after the first
\* video track has come, its context is live and its session is open.
C29_CtxLiveWhileRecording ==
    (command \in {"events", "record"} /\ capPc = "recording" /\ sleepLeft > 0) =>
        (capCtx = "live" /\ capSession = "open")

\* C20: a session that a capture has opened is closed in the end, whatever
\* the outcome of the capture.
C20_SessionEventuallyClosed ==
    (capSession = "open") ~> (capSession = "closed")

\* ========================================================= snapshot claims
\* C22: when TakeSnapshot has returned after the transcoder failed on a .jpg
\* target whose intermediate file existed, it returned nil with the warning
\* and a file other than the target is left as the fallback.
C22_FallbackKept ==
    (/\ tsPc = "returned"
     /\ ffmpeg = "err"
     /\ hadInput
     /\ ToLower(Ext(outputPath)) = dotJPG) =>
        /\ tsRet = "nil"
        /\ tsWarned
        /\ \E f \in files : f # outputPath

\* ======================================================== event loop claims
\* C25: Listen returns only with its context cancelled, and then the
\* context's error; a pull that fails with the context live is followed by
\* the whole pause and the loop's select, never by a return; once the context
\* is cancelled no pull is started and the loop returns in the end.
C25_ListenUntilCancelled ==
    /\ [](listenPc = "returned" => (listenCtx /\ listenRet = "ctx.Err"))
    /\ [][(pullErrs' # pullErrs /\ ~listenCtx) =>
              (listenPc' = "sleep" /\ pauseLeft' = pullPauseSecs)]_vars
    /\ [][(listenPc = "sleep" /\ listenPc' # "sleep") =>
              (pauseLeft = 0 /\ listenPc' = "select")]_vars
    /\ [][listenCtx => pulls' = pulls]_vars
    /\ listenCtx ~> (listenPc = "returned")

\* C25 witness: a pull failed, the loop paused and pulled again, handled an
\* event, and after the cancellation returned the context's error.
C25_Witness ==
    /\ listenPc = "returned"
    /\ listenRet = "ctx.Err"
    /\ pullErrs > 0
    /\ pulls > pullErrs
    /\ handled > 0

\* The events parseMessage returns for the messages of a pull, together.
RECURSIVE TotalEvents(_)
TotalEvents(msgs) ==
    IF msgs = <<>> THEN 0
    ELSE parseMessage(Head(msgs)) + TotalEvents(Tail(msgs))

\* The ids of the first n messages of a pull, each once.
IdsTo(n) == [i \in 1..n |-> i]

\* The step in which an iteration of the loop leaves its handling part.
IterationEnds == listenPc = "handle" /\ listenPc' # "handle"

\* C33: while the messages of a pull are gone through, the ids appended so
\* far are those of the messages done, each once. The iteration ends only
\* when the handler has returned for every event of every message of the
\* pull, and in that step one acknowledge call is made with the id of every
\* pulled message exactly once, undecodable and empty messages included (no
\* call for a pull without messages); the call's error does not stop the
\* loop, which goes back to its select. No acknowledge call is made in any
\* other step.
C33_AckOncePerPull ==
    /\ [](listenPc = "handle" => ackIDs = IdsTo(msgIdx - 1))
    /\ [][IterationEnds =>
              /\ msgIdx = Len(batch) + 1
              /\ toHandle = 0
              /\ handled = TotalEvents(batch)
              /\ IF batch = <<>>
                    THEN ackRet' = "none" /\ acked' = <<>>
                    ELSE ackRet' \in {"ok", "err"} /\ acked' = IdsTo(Len(batch))
              /\ listenPc' = "select"
              /\ listenRet' = listenRet]_vars
    /\ [][(acked' # acked \/ ackRet' # ackRet) => IterationEnds]_vars

\* C33 witness: a pull returned a message that does not decode and an update
\* with an event; the handler was given the event, one call acknowledged the
\* two messages and failed, and the loop has started its next pull.
C33_Witness ==
    /\ listenPc = "pull"
    /\ Len(batch) = 2
    /\ batch[1].data = "undecodable"
    /\ batch[2].data = "update"
    /\ batch[2].events > 0
    /\ handled = batch[2].events
    /\ acked = <<1, 2>>
    /\ ackRet = "err"

\* The handler is being run for an event in this step.
HandlerRuns == handled' = handled + 1

\* C32: the loop gives the handler one event per call and goes on only when
\* the call has returned. Whatever jobs are running and wherever they are,
\* the handler can run to its end for any event the loop has for it (below
\* the model's cap on captureSeq); a call of the handler leaves every running
\* job, its session and its slot as they are; and with no assumption that a
\* job ever moves, the loop gets from its handling part to the acknowledge
\* call and back to its select.
C32_HandlerNeverWaits ==
    /\ []((listenPc = "handle" /\ toHandle > 0 /\ captureSeq < MaxSeq) =>
              \A event \in Events :
                  ENABLED (Deliver(event) /\ UNCHANGED notOrchListen))
    /\ [][HandlerRuns =>
              /\ toHandle' = toHandle - 1
              /\ listenPc = "handle"
              /\ listenPc' = "handle"
              /\ captureSeq' \in {captureSeq, captureSeq + 1}
              /\ clipJobs \subseteq clipJobs'
              /\ snapJobs \subseteq snapJobs'
              /\ Cardinality(clipJobs') <= Cardinality(clipJobs) + 1
              /\ clipSem' >= clipSem
              /\ snapSem' >= snapSem
              /\ sessions' = sessions
              /\ closers' = closers]_vars
    /\ [][(clipJobs' # clipJobs /\ ~HandlerRuns) => UNCHANGED listenVars]_vars
    /\ (listenPc = "handle") ~> (listenPc = "select")

\* C32 witness: the clip job started for the first event has not made a step;
\* an event of a later pull found the slot held, was handled and skipped, and
\* its message has been acknowledged.
C32_Witness ==
    /\ listenPc = "select"
    /\ pulls >= 2
    /\ acked # <<>>
    /\ ackRet = "ok"
    /\ handled > 0
    /\ captureSeq = 2
    /\ last.clip = "skipped"
    /\ clipJobs = {[seq |-> 1, deviceName |-> "enterprises/p/devices/d1",
                    pc |-> "captureClip"]}

\* ============================================================= dedup claims
\* A key stored for an event with this timestamp and type.
KeyFor(key, timestamp, eventType) ==
    /\ Len(key) >= 1 + Len(eventType)
    /\ SubSeq(key, 1, 1 + Len(eventType)) = <<timestamp>> \o eventType

\* A job was started less than the window ago for an event with the
\* timestamp and the type of this one.
StartedFor(event) ==
    \E r \in recent : KeyFor(r.key, event.Timestamp, event.EventType)

HwCloseReturned == \E c \in Callers : hwClosePc[c] = "returned"

\* C35: once a call of Close has returned, no step of the loop writes to the
\* file or changes the frame count; the file is closed once, and a call of
\* Close that finds it closed closes nothing and returns nil; no write is
\* ever made on the file after its Close, and a write is only made with the
\* mutex held by the loop.
C35_NoWriteAfterClose ==
    /\ [][HwCloseReturned =>
              (hwFrames' = hwFrames /\ hwWritten' = hwWritten)]_vars
    /\ [](hwFileCloses <= 1)
    /\ [][\A c \in Callers :
              (hwFile = "closed" /\ hwClosePc[c] = "locked"
               /\ hwClosePc'[c] = "returned") =>
                  /\ hwCloseRet'[c] = "nil"
                  /\ hwFileCloses' = hwFileCloses
                  /\ hwFile' = hwFile]_vars
    /\ [](hwLate = 0)
    /\ [](hwPc = "write" => (hwMu = -1 /\ hwFile = "open"))

\* C35 witness: the loop wrote a sample, Close was called twice and has
\* returned twice, the file closed once; the loop popped the samples that
\* were left, wrote none of them and is still there.
C35_Witness ==
    /\ \A c \in Callers : hwClosePc[c] = "returned"
    /\ hwFileCloses = 1
    /\ \E c \in Callers : hwCloseRet[c] = "nil"
    /\ hwFrames = 1
    /\ hwToWrite = 0
    /\ hwPc = "pop"

\* ========================================================= temporary file
RecordClipCommands == {"events", "record"}

\* C36: RecordClip's temporary file is there from the moment it is created
\* until RecordClip returns, and is gone once RecordClip has returned, by
\* whichever path: stream start failure, timeout waiting for video,
\* transcoder failure or success. A RecordClip that returns out of its setup
\* (the transcoder binary missing, or the file not created) has never had a
\* temporary file.
C36_TmpFileRemoved ==
    /\ []((command \in RecordClipCommands /\ capPc \in {"returned", "exited"})
             => tmpFile = "absent")
    /\ []((command \in RecordClipCommands
           /\ capPc \notin {"setup", "returned", "exited"})
             => tmpFile = "present")
    /\ [][(command \in RecordClipCommands /\ capPc = "setup"
           /\ capPc' = "returned") =>
              /\ tmpFile = "absent"
              /\ tmpFile' = "absent"
              /\ rawFile' = "none"
              /\ transcoderRuns' = 0]_vars

\* C36 witness: the record command's transcoder ran and failed; RecordClip
\* has returned and its temporary file is gone.
C36_Witness ==
    /\ command = "record"
    /\ capPc = "returned"
    /\ capOutcome = "failed"
    /\ transcoderRuns = 1
    /\ rawFile = "closed"
    /\ tmpFile = "absent"

\* ------------------------------------------------------- NewSession claims

\* The calls that NewSession makes on the PeerConnection it has constructed.
AfterConstruction ==
    {"AddAudio", "AddVideo", "CreateDataChannel", "CreateOffer",
     "SetLocalDescription"}

\* C37: NewSession returns either a session together with an offer, or an
\* error and no session; whenever it has failed after the PeerConnection was
\* constructed (adding a transceiver, creating the data channel, creating
\* the offer, setting the local description) the PeerConnection is closed
\* when the error is returned; and the offer is returned only after the
\* candidate gathering has completed, so that it carries every candidate.
C37_SessionOrErrorClosed ==
    (nsPc = "returned") =>
        /\ \/ nsRetSess = "session" /\ nsRetOffer = "sdp" /\ nsRetErr = "nil"
           \/ nsRetSess = "nil" /\ nsRetOffer = "" /\ nsRetErr \in CallNames
        /\ (nsRetErr \in AfterConstruction) => (nsPeer = "closed")
        /\ (nsRetErr \in CallNames \ AfterConstruction) => (nsPeer = "none")
        /\ (nsRetOffer = "sdp") =>
               /\ nsGatherDone
               /\ nsRetCands = nsAvail
               /\ nsPeer = "open"

\* NewSession has failed at pc.CreateOffer and returned the error.
C37_Witness ==
    /\ nsPc = "returned"
    /\ nsRetErr = "CreateOffer"
    /\ nsRetSess = "nil"

\* NewSession has returned a session and an offer with all the candidates
\* there were to gather.
C37_WitnessOffer ==
    /\ nsPc = "returned"
    /\ nsRetSess = "session"
    /\ nsRetCands = Candidates

\* ----------------------------------------------------- TokenManager claims

\* Caller c returns from AccessToken in this step.
TmReturns(c) ==
    /\ tmPc[c] \in {"check", "refresh"}
    /\ tmPc'[c] = "done"

\* Callers that hold tm.mu inside AccessToken.
TmInside ==
    {c \in TmCallers : tmPc[c] \in {"check", "refresh"}}

\* C38: AccessToken returns the cached token without a refresh only when a
\* token is cached and the time is more than 60 s before its expiry, and
\* otherwise sends the refresh request; a refresh that fails returns the
\* error with no token and leaves the cached token and expiry as they were;
\* a refresh that succeeds stores what it returns; and at most one caller is
\* inside AccessToken, so at most one refresh request is in flight.
C38_CachedOrOneRefresh ==
    /\ [](tmInFlight <= 1 /\ Cardinality(TmInside) <= 1)
    /\ [][\A c \in TmCallers :
            /\ (tmPc[c] = "check" /\ tmPc'[c] = "done") =>
                   /\ tmAccessToken # ""
                   /\ tmExpiry - tmNow > refreshMarginSecs
                   /\ tmRet'[c] = TmReturn(tmAccessToken, "nil", FALSE)
                   /\ tmInFlight' = tmInFlight
            /\ (tmPc[c] = "check" /\ tmPc'[c] = "refresh") =>
                   /\ tmAccessToken = "" \/ tmExpiry - tmNow <= refreshMarginSecs
                   /\ tmInFlight' = 1
            /\ (TmReturns(c) /\ tmRet'[c].err # "nil") =>
                   /\ tmRet'[c].token = ""
                   /\ tmAccessToken' = tmAccessToken
                   /\ tmExpiry' = tmExpiry
            /\ (tmPc[c] = "refresh" /\ TmReturns(c) /\ tmRet'[c].err = "nil") =>
                   /\ tmRet'[c].token = tmAccessToken'
                   /\ tmExpiry' \in {tmNow + e : e \in ExpiresIns}
         ]_vars

\* A refresh has failed while a fresh token was cached by an earlier call, and
\* the other caller waits for the mutex.
C38_Witness ==
    \E c, d \in TmCallers :
        /\ c # d
        /\ tmPc[c] = "done"
        /\ tmRet[c].err = "refreshErr"
        /\ tmAccessToken # ""
        /\ tmRet[d] = TmReturn(tmAccessToken, "nil", FALSE)

====
